---------------------------- MODULE Spec2Model ----------------------------
(***************************************************************************)
(* Model of the exar experiment archive (crate exar): version resolution,  *)
(* instance resolution, run recording and cascade deletion against the     *)
(* PostgreSQL schema created by PostgresClient::init_schema.               *)
(*                                                                         *)
(* The store is the record db, one field per table.  Every transaction of  *)
(* the code is the list of SQL statements it issues, run by an interpreter *)
(* (ExecStmt / RunStmts) that applies the schema's PRIMARY KEY, UNIQUE and *)
(* FOREIGN KEY constraints; a failed statement drops the transaction,      *)
(* which rolls it back.  Each store call (one query, or one transaction)   *)
(* is one atomic step; several processes interleave between the calls of   *)
(* one operation.                                                          *)
(***************************************************************************)
EXTENDS Naturals, Sequences, FiniteSets, TLC

VARIABLES
    db,       \* the store: a record of tables
    pc,       \* per process: where it stands inside a multi-call operation
    ver,      \* per process: the ExperimentVersion it holds in memory (Option)
    inst,     \* per process: the ExperimentInstance it holds in memory (Option)
    last,     \* the operation that finished last, and its outcome
    now,      \* the clock: the number of readings of Utc::now so far
    build,    \* per process: the build tag of its executable
    env       \* per process: the value of EXAR_LOCAL in its environment

vars == <<db, pc, ver, inst, last, now, build, env>>

(***************************************************************************)
(* Bounds of the model.                                                    *)
(***************************************************************************)
MaxRows == 3          \* versions + instances + runs held by the store
MaxClock == 3         \* readings of the clock in one behaviour
MaxValues == 2        \* length of a value list passed to make_instance
MaxReports == 2       \* add_measurement calls of one run action
MaxChars == 5         \* characters of a run numbers argument

Procs == {"p1", "p2"}
Tasks == {"t1", "t2"}    \* the concurrent tasks of one run action

None == <<>>
Some(x) == <<x>>
IsSome(o) == Len(o) = 1
Get(o) == o[1]

(***************************************************************************)
(* Variables, data types and values (variable.rs).                         *)
(***************************************************************************)
NumericTypes == {"Number", "Unit"}
StringTypes == {"Label", "Text"}

Variable(name, description, data_type) ==
    [name |-> name, description |-> description, data_type |-> data_type]

\* GenericValue: Numeric(f64) | String(String) | Bool(bool).  An f64 is named
\* by its shortest decimal text; "NaN" is the not-a-number value.
Numeric(x) == [tag |-> "Numeric", v |-> x]
String(s) == [tag |-> "String", v |-> s]
Bool(b) == [tag |-> "Bool", v |-> b]

F64Texts == {"1", "2", "NaN"}
BoolTexts == {"true", "false"}

\* Variable::accepts
accepts(variable, generic_value) ==
    CASE variable.data_type \in NumericTypes -> generic_value.tag = "Numeric"
      [] variable.data_type \in StringTypes -> generic_value.tag = "String"
      [] OTHER -> generic_value.tag = "Bool"

\* impl Display for GenericValue: the text written to a value column
to_string(generic_value) == generic_value.v

\* DataType::parse_str_as_generic_value: Some(value), or None on a parse error
parse_str_as_generic_value(data_type, text) ==
    CASE data_type \in NumericTypes ->
            IF text \in F64Texts THEN Some(Numeric(text)) ELSE None
      [] data_type \in StringTypes -> Some(String(text))
      [] OTHER ->
            IF text \in BoolTexts THEN Some(Bool(text)) ELSE None

\* derive(PartialEq) for GenericValue: f64 equality, under which NaN # NaN
GenericValueEq(a, b) ==
    /\ a.tag = b.tag
    /\ a.v = b.v
    /\ ~(a.tag = "Numeric" /\ a.v = "NaN")

\* VariableValue::from_variable (the caller checks accepts first, see Panics)
VariableValue(variable, value) == [variable |-> variable, value |-> value]

\* derive(PartialEq) for VariableValue
VariableValueEq(a, b) ==
    a.variable = b.variable /\ GenericValueEq(a.value, b.value)

\* serde_json::to_string / from_str of a DataType or VariableType
ToJson(x) == [json |-> x]
FromJson(t) == t.json

(***************************************************************************)
(* Iteration order of a HashSet: some fixed order of its elements.         *)
(***************************************************************************)
RECURSIVE SetToSeq(_)
SetToSeq(S) ==
    IF S = {} THEN <<>>
    ELSE LET x == CHOOSE y \in S : TRUE
         IN  <<x>> \o SetToSeq(S \ {x})

RECURSIVE Flatten(_)
Flatten(ss) == IF ss = <<>> THEN <<>> ELSE Head(ss) \o Flatten(Tail(ss))

\* researchers().iter().join(";"): the text of the researchers column, held
\* as the sequence of its ";"-separated pieces.  A name is the sequence of its
\* own pieces (<<"ann">>, or <<"a", "b">> for "a;b"); no names give "".
JoinResearchers(researchers) ==
    IF researchers = {} THEN <<"">> ELSE Flatten(SetToSeq(researchers))

\* researchers_str.split(";").map(to_string).collect::<HashSet<_>>()
SplitResearchers(text) == {<<text[i]>> : i \in DOMAIN text}

(***************************************************************************)
(* The store.                                                              *)
(***************************************************************************)
EmptyDb ==
    [experiments |-> {}, experiment_versions |-> {}, variables |-> {},
     experiment_variables |-> {}, experiment_instances |-> {},
     in_values |-> {}, runs |-> {}, measurements |-> {}]

Ok(d) == [ok |-> TRUE, db |-> d]
Err(d) == [ok |-> FALSE, db |-> d]

\* A table without a key keeps equal rows apart: a row carries its number
\* among the rows of the same owner.
RowNo(rows) == Cardinality(rows) + 1

(***************************************************************************)
(* The schema's constraints (init_schema).  PostgreSQL checks them at each *)
(* statement; a statement that would break one fails.                      *)
(***************************************************************************)
VersionIds(d) == {v.id : v \in d.experiment_versions}
InstanceIds(d) == {i.id : i \in d.experiment_instances}
RunIds(d) == {r.id : r \in d.runs}
VariableNames(d) == {v.name : v \in d.variables}

\* A schema that declares no foreign key
NoForeignKeys(d) == TRUE

\* The foreign keys of the schema:
\*   experiment_versions: FOREIGN KEY (name) REFERENCES experiments(name)
\*   experiment_instances: FOREIGN KEY (name), FOREIGN KEY (version_id)
\*   experiment_variables: FOREIGN KEY (ex_name), (ex_version_id), (var_name)
\*   in_values: FOREIGN KEY (ex_instance_id), FOREIGN KEY (var_name)
\*   runs: FOREIGN KEY (ex_instance_id)
\*   measurements: FOREIGN KEY (run_id), FOREIGN KEY (var_name)
ForeignKeys(d) ==
    LET FkVersions == \A v \in d.experiment_versions : v.name \in d.experiments
        FkInstances ==
            \A i \in d.experiment_instances :
                i.name \in d.experiments /\ i.version_id \in VersionIds(d)
        FkExperimentVariables ==
            \A l \in d.experiment_variables :
                /\ l.ex_name \in d.experiments
                /\ l.ex_version_id \in VersionIds(d)
                /\ l.var_name \in VariableNames(d)
        FkInValues ==
            \A x \in d.in_values :
                x.ex_instance_id \in InstanceIds(d) /\ x.var_name \in VariableNames(d)
        FkRuns == \A r \in d.runs : r.ex_instance_id \in InstanceIds(d)
        FkMeasurements ==
            \A m \in d.measurements :
                m.run_id \in RunIds(d) /\ m.var_name \in VariableNames(d)
    IN  /\ FkVersions
        /\ FkInstances
        /\ FkExperimentVariables
        /\ FkInValues
        /\ FkRuns
        /\ FkMeasurements

\* A join that is not restricted to the version: every instance
InstancesOfAnyVersion(d, version_id) ==
    {i.id : i \in d.experiment_instances}

\* The rows a DELETE ... USING of delete_experiment_version joins to
InstancesOfVersion(d, version_id) ==
    {i.id : i \in {j \in d.experiment_instances : j.version_id = version_id}}
RunsOfInstances(d, instance_ids) ==
    {r.id : r \in {q \in d.runs : q.ex_instance_id \in instance_ids}}

\* A schema with UNIQUE (var_name, value) on in_values
InValuesUniqueKey(row, d) ==
    \A x \in d.in_values : x.var_name # row.var_name \/ x.value # row.value

\* CREATE TABLE in_values declares no PRIMARY KEY and no UNIQUE: no insert
\* into it is refused for the rows the table holds
InValuesKey(row, d) == TRUE

\* An insert that overwrites the row of a name already in the catalog
UpsertVariable(row, d) ==
    [d EXCEPT !.variables = {v \in @ : v.name # row.name} \cup {row}]

\* INSERT INTO variables ... ON CONFLICT (name) DO NOTHING
InsertVariable(row, d) ==
    IF row.name \in VariableNames(d) THEN d
    ELSE [d EXCEPT !.variables = @ \cup {row}]

(***************************************************************************)
(* One SQL statement: its effect on the tables, before the constraints.    *)
(* Result: [pk |-> no key or uniqueness violation, db |-> tables after].   *)
(***************************************************************************)
Effect(s, d) ==
    CASE s.op = "insert_experiment" ->
            [pk |-> s.name \notin d.experiments,
             db |-> [d EXCEPT !.experiments = @ \cup {s.name}]]
      [] s.op = "insert_variable" ->
            [pk |-> TRUE, db |-> InsertVariable(s.row, d)]
      [] s.op = "insert_version" ->
            [pk |-> s.row.id \notin VersionIds(d),
             db |-> [d EXCEPT !.experiment_versions = @ \cup {s.row}]]
      [] s.op = "insert_link" -> \* ON CONFLICT (var_name, ex_version_id) DO NOTHING
            [pk |-> TRUE,
             db |-> IF \E l \in d.experiment_variables :
                          /\ l.var_name = s.row.var_name
                          /\ l.ex_version_id = s.row.ex_version_id
                    THEN d
                    ELSE [d EXCEPT !.experiment_variables = @ \cup {s.row}]]
      [] s.op = "insert_instance" ->
            [pk |-> s.row.id \notin InstanceIds(d),
             db |-> [d EXCEPT !.experiment_instances = @ \cup {s.row}]]
      [] s.op = "insert_in_value" ->
            [pk |-> InValuesKey(s.row, d),
             db |-> [d EXCEPT !.in_values = @ \cup
                       {[ex_instance_id |-> s.row.ex_instance_id,
                         var_name |-> s.row.var_name,
                         value |-> s.row.value,
                         row |-> RowNo({x \in d.in_values :
                                   x.ex_instance_id = s.row.ex_instance_id})]}]]
      [] s.op = "insert_run" ->
            [pk |-> s.row.id \notin RunIds(d),
             db |-> [d EXCEPT !.runs = @ \cup {s.row}]]
      [] s.op = "insert_measurement" ->
            [pk |-> TRUE,
             db |-> [d EXCEPT !.measurements = @ \cup
                       {[run_id |-> s.row.run_id,
                         var_name |-> s.row.var_name,
                         value |-> s.row.value,
                         row |-> RowNo({m \in d.measurements :
                                   m.run_id = s.row.run_id})]}]]
      [] s.op = "delete_links_of_version" ->
            [pk |-> TRUE,
             db |-> [d EXCEPT !.experiment_variables =
                       {l \in @ : l.ex_version_id # s.id}]]
      [] s.op = "delete_measurements_of_version" ->
            [pk |-> TRUE,
             db |-> [d EXCEPT !.measurements =
                       {m \in @ : m.run_id \notin
                          RunsOfInstances(d, InstancesOfVersion(d, s.id))}]]
      [] s.op = "delete_runs_of_version" ->
            [pk |-> TRUE,
             db |-> [d EXCEPT !.runs =
                       {r \in @ : r.ex_instance_id \notin
                          InstancesOfVersion(d, s.id)}]]
      [] s.op = "delete_in_values_of_version" ->
            [pk |-> TRUE,
             db |-> [d EXCEPT !.in_values =
                       {x \in @ : x.ex_instance_id \notin
                          InstancesOfVersion(d, s.id)}]]
      [] s.op = "delete_instances_of_version" ->
            [pk |-> TRUE,
             db |-> [d EXCEPT !.experiment_instances =
                       {i \in @ : i.version_id # s.id}]]
      [] s.op = "delete_version" ->
            [pk |-> TRUE,
             db |-> [d EXCEPT !.experiment_versions = {v \in @ : v.id # s.id}]]
      [] s.op = "delete_experiment" ->
            [pk |-> TRUE,
             db |-> [d EXCEPT !.experiments = @ \ {s.name}]]
      [] s.op = "delete_measurements_of_instance" ->
            [pk |-> TRUE,
             db |-> [d EXCEPT !.measurements =
                       {m \in @ : m.run_id \notin RunsOfInstances(d, {s.id})}]]
      [] s.op = "delete_runs_of_instance" ->
            [pk |-> TRUE,
             db |-> [d EXCEPT !.runs = {r \in @ : r.ex_instance_id # s.id}]]
      [] s.op = "delete_in_values_of_instance" ->
            [pk |-> TRUE,
             db |-> [d EXCEPT !.in_values = {x \in @ : x.ex_instance_id # s.id}]]
      [] s.op = "delete_instance" ->
            [pk |-> TRUE,
             db |-> [d EXCEPT !.experiment_instances = {i \in @ : i.id # s.id}]]

\* transaction.execute(statement): the statement takes effect unless it
\* violates a key or a foreign key
ExecStmt(s, d) ==
    LET e == Effect(s, d)
    IN  IF e.pk /\ ForeignKeys(e.db) THEN Ok(e.db) ELSE Err(d)

\* The statements of a transaction in order, each followed by `?`: the first
\* failing statement ends it.  fail_at = k > 0 is a store error (connection
\* loss, abort) raised by the k-th call, k = Len(stmts) + 1 being commit().
\* Result: [ok, db |-> the transaction's view when it ended].
RECURSIVE RunStmts(_, _, _)
RunStmts(stmts, d, fail_at) ==
    IF fail_at = 1 THEN Err(d)
    ELSE IF stmts = <<>> THEN Ok(d)
    ELSE LET r == ExecStmt(Head(stmts), d)
         IN  IF ~r.ok THEN Err(d)
             ELSE RunStmts(Tail(stmts), r.db,
                           IF fail_at = 0 THEN 0 ELSE fail_at - 1)

\* A transaction that keeps what its statements did before the failure
TransactionWithoutRollback(stmts, d, fail_at) ==
    RunStmts(stmts, d, fail_at)

\* client.transaction() ... transaction.commit(): dropping a Transaction that
\* was not committed rolls it back, so a failed transaction leaves the
\* store as it was
Transaction(stmts, d, fail_at) ==
    LET r == RunStmts(stmts, d, fail_at)
    IN  IF r.ok THEN Ok(r.db) ELSE Err(d)

FailPoints(stmts) == 0 .. (Len(stmts) + 1)

(***************************************************************************)
(* Reading the store (impl Database for PostgresClient).                   *)
(***************************************************************************)
\* The variables of one kind joined to a version through experiment_variables;
\* a Variable is built from the row of the variables table (TryFrom<&Row>)
VariablesOfKind(d, name, version_id, kind) ==
    {Variable(v.name, v.description, FromJson(v.type)) :
        v \in {w \in d.variables :
                \E l \in d.experiment_variables :
                    /\ l.var_name = w.name
                    /\ l.ex_name = name
                    /\ l.ex_version_id = version_id
                    /\ FromJson(l.kind) = kind}}

\* One row of experiment_versions read back as an ExperimentVersion
VersionFromRow(d, row) ==
    [id |-> row.id,
     name |-> row.name,
     version |-> row.version,
     date |-> row.date,
     description |-> row.description,
     researchers |-> SplitResearchers(row.researchers),
     input_variables |-> VariablesOfKind(d, row.name, row.id, "Input"),
     output_variables |-> VariablesOfKind(d, row.name, row.id, "Output")]

fetch_experiments(d) == d.experiments

\* fetch_all_experiment_versions_by_name, its first query: the rows of
\* experiment_versions of the name, joined to experiments
VersionRowsByName(d, name) ==
    {r \in d.experiment_versions : r.name = name /\ r.name \in d.experiments}

fetch_all_experiment_versions_by_name(d, name) ==
    {VersionFromRow(d, row) : row \in VersionRowsByName(d, name)}

\* A store that answers with the oldest version of the name
OldestOf(all) ==
    IF all = {} THEN {None}
    ELSE {Some(v) : v \in {w \in all : \A u \in all : w.date <= u.date}}

\* sort_by(|a, b| b.date().cmp(a.date())) then remove(0): a version of the
\* greatest date; the query has no ORDER BY, so among equal dates any one
LatestOf(all) ==
    IF all = {} THEN {None}
    ELSE {Some(v) : v \in {w \in all : \A u \in all : u.date <= w.date}}

fetch_latest_experiment_version_by_name(d, name) ==
    LatestOf(fetch_all_experiment_versions_by_name(d, name))

\* fetch_specific_experiment_version: the first of the fetched versions that
\* carries the tag, in the order of a query without ORDER BY
fetch_specific_experiment_version(d, name, version) ==
    LET all_versions == fetch_all_experiment_versions_by_name(d, name)
        tagged == {v \in all_versions : v.version = version}
    IN  IF tagged = {} THEN {None} ELSE {Some(v) : v \in tagged}

(***************************************************************************)
(* The inputs the callers draw from.                                       *)
(***************************************************************************)
VX == Variable("X", "dx", "Label")
VX2 == Variable("X", "dx2", "Label")       \* X declared again, other description
VZ == Variable("Z", "dz", "Number")
VY == Variable("Y", "dy", "Number")
VW == Variable("W", "dw", "Bool")

BaseConfig ==
    [name |-> "E", description |-> "d1", researchers |-> {<<"ann">>},
     input_variables |-> {VX}, output_variables |-> {VY}]

Names == {BaseConfig.name}
BuildTags == {"b1", "b2"}

SeqsUpTo(S, n) == UNION {[1..k -> S] : k \in 0..n}

\* (name, value) pairs handed to make_instance
ValuePairs ==
    {<<"X", String("a")>>, <<"X", String("b")>>, <<"X", Numeric("1")>>,
     <<"Z", Numeric("1")>>, <<"Z", Numeric("NaN")>>, <<"Q", String("a")>>}
ValueLists == SeqsUpTo(ValuePairs, MaxValues)

\* (name, value) pairs handed to RunContext::add_measurement
ReportPairs ==
    {<<"Y", Numeric("1")>>, <<"Y", Numeric("2")>>, <<"Y", String("a")>>,
     <<"W", Bool("true")>>, <<"Q", Numeric("1")>>}
ReportLists == SeqsUpTo(ReportPairs, MaxReports)

(***************************************************************************)
(* ExperimentVersion (experiment.rs).                                      *)
(***************************************************************************)
\* ExperimentVersion::from_experiment
from_experiment(id, name, version, date, description, researchers, input_variables, output_variables) ==
    [id |-> id, name |-> name, version |-> version, date |-> date,
     description |-> description, researchers |-> researchers,
     input_variables |-> input_variables,
     output_variables |-> output_variables]

\* version::current_version: the build tag of the running executable
current_version(p) == build[p]

\* A build that never looks at EXAR_LOCAL
AlwaysUseDatabase(p) == TRUE

\* use_database: the store is used unless EXAR_LOCAL is exactly "1"; the
\* variable is read anew at every call
use_database(p) == env[p] # Some("1")

\* The comparison of sync_with_db: is the submitted experiment another
\* version than the latest stored one?
IsNewVersion(p, latest_version, cfg) ==
    \/ current_version(p) # latest_version.version
    \/ latest_version.description # cfg.description
    \/ latest_version.researchers # cfg.researchers
    \/ latest_version.input_variables # cfg.input_variables
    \/ latest_version.output_variables # cfg.output_variables

VariableRow(variable) ==
    [name |-> variable.name, description |-> variable.description,
     type |-> ToJson(variable.data_type)]

LinkRow(version, variable, kind) ==
    [var_name |-> variable.name, ex_name |-> version.name,
     ex_version_id |-> version.id, kind |-> ToJson(kind)]

\* PostgresClient::add_new_experiment_version: the statements it executes
add_new_experiment_version(version) ==
    LET ins == SetToSeq(version.input_variables)
        outs == SetToSeq(version.output_variables)
        all_variables == ins \o outs
    IN  [i \in DOMAIN all_variables |->
            [op |-> "insert_variable", row |-> VariableRow(all_variables[i])]]
        \o
        <<[op |-> "insert_version",
           row |-> [id |-> version.id, name |-> version.name,
                    version |-> version.version, date |-> version.date,
                    description |-> version.description,
                    researchers |-> JoinResearchers(version.researchers)]]>>
        \o
        [i \in DOMAIN ins |->
            [op |-> "insert_link", row |-> LinkRow(version, ins[i], "Input")]]
        \o
        [i \in DOMAIN outs |->
            [op |-> "insert_link", row |-> LinkRow(version, outs[i], "Output")]]

\* Database::insert_new_experiment: the statements of its transaction
insert_new_experiment(version) ==
    <<[op |-> "insert_experiment", name |-> version.name]>>
    \o add_new_experiment_version(version)

\* Database::insert_new_experiment_version: the statements of its transaction
insert_new_experiment_version(version) == add_new_experiment_version(version)

Idle == [at |-> "idle"]
Result(op, outcome) == [op |-> op, outcome |-> outcome]

\* The ids a state holds: in the store, in the entities the processes hold,
\* and in the entities being inserted
UsedIds ==
    VersionIds(db) \cup InstanceIds(db) \cup RunIds(db)
    \cup {Get(ver[p]).id : p \in {q \in Procs : IsSome(ver[q])}}
    \cup {Get(inst[p]).id : p \in {q \in Procs : IsSome(inst[q])}}
    \cup {Get(inst[p]).experiment_version.id :
             p \in {q \in Procs : IsSome(inst[q])}}
    \cup {pc[p].version.id :
             p \in {q \in Procs : pc[q].at = "insert_new_experiment_instance"}}
    \cup UNION {{r.id : r \in pc[p].rows} :
                   p \in {q \in Procs : pc[q].at = "fetch_variables"}}

\* util::gen_unique_id draws a random token.  Tokens are only compared for
\* equality, so the model names a new one by the least number no entity of
\* the state carries.
gen_unique_id == CHOOSE n \in 1..(Cardinality(UsedIds) + 1) :
                    n \notin UsedIds /\ \A m \in 1..(n - 1) : m \in UsedIds

\* Utc::now: each reading is later than every earlier one
utc_now == now + 1

\* The bound of the model: an insert is explored while the store holds fewer
\* than MaxRows versions, instances and runs
RowCount(d) ==
    Cardinality(d.experiment_versions) + Cardinality(d.experiment_instances)
        + Cardinality(d.runs)

\* sync_with_db up to its insert call: fetch the latest version, compare, and
\* either return it or build the version to insert (Utc::now is read here)
SyncCompare(p, cfg, latest) ==
    IF IsSome(latest) /\ ~IsNewVersion(p, Get(latest), cfg)
    THEN /\ ver' = [ver EXCEPT ![p] = latest]
         /\ last' = Result("get_current_version", "ok")
         /\ pc' = [pc EXCEPT ![p] = Idle]
         /\ UNCHANGED now
    ELSE /\ now < MaxClock
         /\ now' = utc_now
         /\ pc' = [pc EXCEPT ![p] =
              [at |-> IF IsSome(latest)
                      THEN "insert_new_experiment_version"
                      ELSE "insert_new_experiment",
               cfg |-> cfg, date |-> utc_now]]
         /\ UNCHANGED <<ver, last>>

SyncFetch(p, cfg, fail) ==
    /\ pc[p] = Idle
    /\ UNCHANGED <<db, inst, build, env>>
    /\ IF ~use_database(p)
       THEN /\ ~fail
            /\ now < MaxClock
            /\ now' = utc_now
            /\ ver' = [ver EXCEPT ![p] =
                 Some(from_experiment(gen_unique_id, cfg.name,
                                      current_version(p), utc_now,
                                      cfg.description, cfg.researchers,
                                      cfg.input_variables,
                                      cfg.output_variables))]
            /\ last' = Result("get_current_version", "ok")
            /\ UNCHANGED pc
       ELSE IF fail
       THEN /\ last' = Result("get_current_version", "err_fetch")
            /\ UNCHANGED <<pc, ver, now>>
       ELSE \E latest \in fetch_latest_experiment_version_by_name(db, cfg.name) :
              SyncCompare(p, cfg, latest)

\* The same fetch query by query.  fetch_all_experiment_versions_by_name
\* sends its queries one after the other with client.query, outside any
\* transaction, so each reads the store as it is when it is sent.  First
\* query: the version rows of the name.
SyncFetchRows(p, cfg) ==
    /\ pc[p] = Idle
    /\ pc' = [pc EXCEPT ![p] =
         [at |-> "fetch_variables", cfg |-> cfg,
          rows |-> VersionRowsByName(db, cfg.name)]]
    /\ UNCHANGED <<db, ver, inst, last, now, build, env>>

\* The versions the fetch builds from the rows it read, with the variables
\* the store links to them now
VersionsRead(p) == {VersionFromRow(db, row) : row \in pc[p].rows}

\* The queries for the variables of each row (taken together), then the
\* comparison of sync_with_db
SyncFetchVariables(p) ==
    /\ pc[p].at = "fetch_variables"
    /\ UNCHANGED <<db, inst, build, env>>
    /\ \E latest \in LatestOf(VersionsRead(p)) :
          SyncCompare(p, pc[p].cfg, latest)

\* The version sync_with_db builds before it inserts
NewVersion(p) ==
    from_experiment(gen_unique_id, pc[p].cfg.name, current_version(p),
                    pc[p].date, pc[p].cfg.description, pc[p].cfg.researchers,
                    pc[p].cfg.input_variables, pc[p].cfg.output_variables)

\* sync_with_db, unknown name: insert_new_experiment, then return the version
SyncInsertExperiment(p, fail_at) ==
    LET version == NewVersion(p)
        stmts == insert_new_experiment(version)
        r == Transaction(stmts, db, fail_at)
    IN  /\ pc[p].at = "insert_new_experiment"
        /\ fail_at \in FailPoints(stmts)
        /\ r.ok => RowCount(db) < MaxRows
        /\ db' = r.db
        /\ ver' = IF r.ok THEN [ver EXCEPT ![p] = Some(version)] ELSE ver
        /\ last' = Result("get_current_version",
                            IF r.ok THEN "ok" ELSE "err_store")
        /\ pc' = [pc EXCEPT ![p] = Idle]
        /\ UNCHANGED <<inst, now, build, env>>

\* sync_with_db, changed experiment: insert_new_experiment_version
SyncInsertVersion(p, fail_at) ==
    LET version == NewVersion(p)
        stmts == insert_new_experiment_version(version)
        r == Transaction(stmts, db, fail_at)
    IN  /\ pc[p].at = "insert_new_experiment_version"
        /\ fail_at \in FailPoints(stmts)
        /\ r.ok => RowCount(db) < MaxRows
        /\ db' = r.db
        /\ ver' = IF r.ok THEN [ver EXCEPT ![p] = Some(version)] ELSE ver
        /\ last' = Result("get_current_version",
                            IF r.ok THEN "ok" ELSE "err_store")
        /\ pc' = [pc EXCEPT ![p] = Idle]
        /\ UNCHANGED <<inst, now, build, env>>

(***************************************************************************)
(* ExperimentInstance (experiment.rs).                                     *)
(***************************************************************************)
VariablesByName(variables, name) == {v \in variables : v.name = name}

\* ExperimentVersion::make_instance, the map over the given pairs, left to
\* right: an unknown name is an Err, a value of the wrong type a panic
\* (VariableValue::from_variable)
RECURSIVE CheckValues(_, _)
CheckValues(variables, pairs) ==
    IF pairs = <<>> THEN "ok"
    ELSE LET found == VariablesByName(variables, Head(pairs)[1])
         IN  IF found = {} THEN "err_name"
             ELSE IF \E v \in found : ~accepts(v, Head(pairs)[2]) THEN "panic"
             ELSE CheckValues(variables, Tail(pairs))

AsVariableValues(variables, pairs) ==
    [i \in DOMAIN pairs |->
        VariableValue(CHOOSE v \in variables : v.name = pairs[i][1], pairs[i][2])]

\* A check that lets a call pass whose values leave input variables out
NamesWithinInputs(version, variable_values) ==
    {variable_values[i].variable.name : i \in DOMAIN variable_values}
        \subseteq {v.name : v \in version.input_variables}

\* ExperimentInstance::from_experiment_version, the check of the names
NamesMatch(version, variable_values) ==
    {v.name : v \in version.input_variables}
        = {variable_values[i].variable.name : i \in DOMAIN variable_values}

ExperimentInstance(experiment_version, input_variable_values, id) ==
    [experiment_version |-> experiment_version,
     input_variable_values |-> input_variable_values,
     id |-> id]

\* The rows of in_values of one instance, in row order
RECURSIVE RowsInOrder(_)
RowsInOrder(rows) ==
    IF rows = {} THEN <<>>
    ELSE LET x == CHOOSE y \in rows : \A z \in rows : y.row <= z.row
         IN  <<x>> \o RowsInOrder(rows \ {x})

\* fetch_all_instances_of_experiment_version: the instances of the version
\* that have in_values rows (INNER JOIN), each value parsed with the data type
\* the caller's version declares.  None when a row fails to parse.
ParsedValue(variables, row) ==
    LET found == VariablesByName(variables, row.var_name)
    IN  IF found = {} THEN None
        ELSE LET v == CHOOSE w \in found : TRUE
                 parsed == parse_str_as_generic_value(v.data_type, row.value)
             IN  IF IsSome(parsed) THEN Some(VariableValue(v, Get(parsed)))
                 ELSE None

fetch_all_instances_of_experiment_version(d, version) ==
    LET ids == {i.id : i \in {j \in d.experiment_instances :
                     /\ j.name = version.name
                     /\ j.version_id = version.id
                     /\ \E x \in d.in_values : x.ex_instance_id = j.id}}
        rows(id) == RowsInOrder({x \in d.in_values : x.ex_instance_id = id})
        parsed(id) == [k \in DOMAIN rows(id) |->
                         ParsedValue(version.input_variables, rows(id)[k])]
    IN  IF \E id \in ids : \E k \in DOMAIN parsed(id) : ~IsSome(parsed(id)[k])
        THEN None
        ELSE Some({ExperimentInstance(version,
                       [k \in DOMAIN parsed(id) |-> Get(parsed(id)[k])], id) :
                   id \in ids})

\* The match of fetch_specific_instance: same length, and every stored value
\* is among the requested ones
SameValues(actual_variable_values, input_variable_values) ==
    /\ Len(actual_variable_values) = Len(input_variable_values)
    /\ \A i \in DOMAIN actual_variable_values :
          \E j \in DOMAIN input_variable_values :
             VariableValueEq(input_variable_values[j], actual_variable_values[i])

\* fetch_specific_instance: None on a store error, else Some(set of the
\* instances `find` may return); the rows come ordered by id, a random token
fetch_specific_instance(d, version, input_variable_values) ==
    LET all_instances == fetch_all_instances_of_experiment_version(d, version)
    IN  IF ~IsSome(all_instances) THEN None
        ELSE Some({i \in Get(all_instances) :
                     SameValues(i.input_variable_values, input_variable_values)})

\* fetch_instance_from_id: None on a store error, else Some(the fetched
\* instances of the version that carry the id)
fetch_instance_from_id(d, instance_id, version) ==
    LET all_instances == fetch_all_instances_of_experiment_version(d, version)
    IN  IF ~IsSome(all_instances) THEN None
        ELSE Some({i \in Get(all_instances) : i.id = instance_id})

\* Database::insert_new_experiment_instance: the statements of its transaction
insert_new_experiment_instance(instance) ==
    <<[op |-> "insert_instance",
       row |-> [id |-> instance.id,
                name |-> instance.experiment_version.name,
                version_id |-> instance.experiment_version.id]]>>
    \o
    [i \in DOMAIN instance.input_variable_values |->
        [op |-> "insert_in_value",
         row |-> [ex_instance_id |-> instance.id,
                  var_name |-> instance.input_variable_values[i].variable.name,
                  value |-> to_string(instance.input_variable_values[i].value)]]]

\* make_instance up to its insert call, on the version the process holds
MakeInstanceFetch(p, pairs, fail) ==
    LET version == Get(ver[p])
        checked == CheckValues(version.input_variables, pairs)
        values == AsVariableValues(version.input_variables, pairs)
        found == fetch_specific_instance(db, version, values)
        done(outcome) ==
            /\ last' = Result("make_instance", outcome)
            /\ UNCHANGED <<pc, inst>>
    IN  /\ pc[p] = Idle
        /\ IsSome(ver[p])
        /\ UNCHANGED <<db, ver, now, build, env>>
        /\ IF checked # "ok" THEN ~fail /\ done(checked)
           ELSE IF ~NamesMatch(version, values) THEN ~fail /\ done("panic")
           ELSE IF ~use_database(p)
           THEN /\ ~fail
                /\ inst' = [inst EXCEPT ![p] =
                     Some(ExperimentInstance(version, values, gen_unique_id))]
                /\ last' = Result("make_instance", "ok")
                /\ UNCHANGED pc
           ELSE IF fail \/ ~IsSome(found) THEN done("err_fetch")
           ELSE IF Get(found) # {}
           THEN \E existing \in Get(found) :
                   /\ inst' = [inst EXCEPT ![p] = Some(existing)]
                   /\ last' = Result("make_instance", "ok")
                   /\ UNCHANGED pc
           ELSE /\ pc' = [pc EXCEPT ![p] =
                     [at |-> "insert_new_experiment_instance",
                      version |-> version, values |-> values]]
                /\ UNCHANGED <<inst, last>>

\* from_experiment_version, no matching instance: insert a new one
MakeInstanceInsert(p, fail_at) ==
    LET instance == ExperimentInstance(pc[p].version, pc[p].values, gen_unique_id)
        stmts == insert_new_experiment_instance(instance)
        r == Transaction(stmts, db, fail_at)
    IN  /\ pc[p].at = "insert_new_experiment_instance"
        /\ fail_at \in FailPoints(stmts)
        /\ r.ok => RowCount(db) < MaxRows
        /\ db' = r.db
        /\ inst' = IF r.ok THEN [inst EXCEPT ![p] = Some(instance)] ELSE inst
        /\ last' = Result("make_instance", IF r.ok THEN "ok" ELSE "err_store")
        /\ pc' = [pc EXCEPT ![p] = Idle]
        /\ UNCHANGED <<ver, now, build, env>>

(***************************************************************************)
(* ExperimentRun and RunContext (run.rs).                                  *)
(***************************************************************************)
\* RunContext::add_measurement for each report in turn: panics on a name
\* that is no output variable and on a value of the wrong type
RECURSIVE CheckReports(_, _)
CheckReports(output_variables, reports) ==
    IF reports = <<>> THEN "ok"
    ELSE LET found == VariablesByName(output_variables, Head(reports)[1])
         IN  IF found = {} THEN "panic"
             ELSE IF \E v \in found : ~accepts(v, Head(reports)[2]) THEN "panic"
             ELSE CheckReports(output_variables, Tail(reports))

\* A validation that only rejects measurements of other variables
MeasurementsWithinOutputs(version, measurements) ==
    {measurements[i].variable : i \in DOMAIN measurements}
        \subseteq version.output_variables

\* RunContext::to_run, the validation: the set of measured variables is the
\* set of output variables
MeasurementsComplete(version, measurements) ==
    {measurements[i].variable : i \in DOMAIN measurements}
        = version.output_variables

\* Database::insert_new_run: the statements of its transaction
insert_new_run(run) ==
    <<[op |-> "insert_run",
       row |-> [ex_instance_id |-> run.experiment_instance.id,
                id |-> run.id, date |-> run.date]]>>
    \o
    [i \in DOMAIN run.measurements |->
        [op |-> "insert_measurement",
         row |-> [run_id |-> run.id,
                  var_name |-> run.measurements[i].variable.name,
                  value |-> to_string(run.measurements[i].value)]]]

\* The rows of SELECT id, date, var_name, value FROM runs INNER JOIN
\* measurements ON measurements.run_id = runs.id WHERE runs.ex_instance_id = $1
JoinedRunRows(d, instance_id) ==
    {[id |-> x[1].id, date |-> x[1].date, var_name |-> x[2].var_name,
      value |-> x[2].value, row |-> x[2].row] :
        x \in {y \in d.runs \X d.measurements :
                 y[1].ex_instance_id = instance_id /\ y[2].run_id = y[1].id}}

\* The query has no ORDER BY: the rows come in any order
Orders(rows) ==
    {f \in [1..Cardinality(rows) -> rows] :
        \A i, j \in 1..Cardinality(rows) : f[i] = f[j] => i = j}

\* The length of the first group of group_by(|row| row.get("id")): the
\* consecutive rows that carry the id of the first row
RECURSIVE GroupLen(_)
GroupLen(rows) ==
    IF Len(rows) <= 1 THEN Len(rows)
    ELSE IF rows[2].id # rows[1].id THEN 1
    ELSE 1 + GroupLen(Tail(rows))

\* PostgresClient::parse_rows_to_runs: one run for each group, its date from
\* the rows, its measurements parsed with the output variables of the
\* instance's version.  None when a row fails to parse.
RECURSIVE parse_rows_to_runs(_, _)
parse_rows_to_runs(rows, experiment_instance) ==
    IF rows = <<>> THEN Some(<<>>)
    ELSE LET n == GroupLen(rows)
             group == SubSeq(rows, 1, n)
             outputs == experiment_instance.experiment_version.output_variables
             parsed == [k \in DOMAIN group |-> ParsedValue(outputs, group[k])]
             rest == parse_rows_to_runs(SubSeq(rows, n + 1, Len(rows)),
                                        experiment_instance)
         IN  IF (\E k \in DOMAIN parsed : ~IsSome(parsed[k])) \/ ~IsSome(rest)
             THEN None
             ELSE Some(<<[experiment_instance |-> experiment_instance,
                          date |-> group[n].date,
                          id |-> group[1].id,
                          measurements |->
                              [k \in DOMAIN parsed |-> Get(parsed[k])]]>>
                       \o Get(rest))

\* fetch_all_runs_of_instance: the results the call may return, one for each
\* order of the rows
fetch_all_runs_of_instance(d, experiment_instance) ==
    {parse_rows_to_runs(rows, experiment_instance) :
        rows \in Orders(JoinedRunRows(d, experiment_instance.id))}

\* A run that goes to the store whatever the action returned
RunOutcomeIgnoringAction(checked, action_ok, complete) ==
    IF checked # "ok" THEN "panic"
    ELSE IF ~complete THEN "err_validation"
    ELSE "sync_with_db"

\* ExperimentInstance::run up to its store call: the action runs (a report
\* add_measurement rejects panics inside it), its error returns at once,
\* then to_run validates; only then comes sync_with_db
RunOutcome(checked, action_ok, complete) ==
    IF checked # "ok" THEN "panic"
    ELSE IF ~action_ok THEN "err_action"
    ELSE IF ~complete THEN "err_validation"
    ELSE "sync_with_db"

\* ExperimentInstance::run from the return of the action on: `checked` is
\* what add_measurement made of the reports, `measurements` the accumulator
RunReturn(p, checked, measurements, action_ok, fail_at) ==
    LET instance == Get(inst[p])
        version == instance.experiment_version
        outcome == RunOutcome(checked, action_ok,
                              checked = "ok"
                              /\ MeasurementsComplete(version, measurements))
        run == [experiment_instance |-> instance, date |-> utc_now,
                id |-> gen_unique_id, measurements |-> measurements]
        stmts == insert_new_run(run)
        r == Transaction(stmts, db, fail_at)
    IN  /\ IsSome(inst[p])
        /\ pc' = [pc EXCEPT ![p] = Idle]
        /\ UNCHANGED <<ver, inst, build, env>>
        /\ IF outcome # "sync_with_db"
           THEN /\ fail_at = 0
                /\ last' = Result("run", outcome)
                /\ UNCHANGED <<db, now>>
           ELSE IF ~use_database(p)
           THEN /\ fail_at = 0
                /\ now < MaxClock
                /\ now' = utc_now
                /\ last' = Result("run", "ok")
                /\ UNCHANGED db
           ELSE /\ fail_at \in FailPoints(stmts)
                /\ now < MaxClock
                /\ now' = utc_now
                /\ r.ok => RowCount(db) < MaxRows
                /\ db' = r.db
                /\ last' = Result("run", IF r.ok THEN "ok" ELSE "err_store")

\* ExperimentInstance::run on the instance the process holds: the action
\* reports `reports` one after the other and returns Ok (action_ok) or Err
Run(p, reports, action_ok, fail_at) ==
    /\ pc[p] = Idle
    /\ IsSome(inst[p])
    /\ RunReturn(p,
          CheckReports(Get(inst[p]).experiment_version.output_variables, reports),
          AsVariableValues(Get(inst[p]).experiment_version.output_variables,
                           reports),
          action_ok, fail_at)

(***************************************************************************)
(* The same run with the action spread over concurrent tasks that share    *)
(* the RunContext.  The context is held in pc: measurements is the Vec,    *)
(* holder the task holding its Mutex, plan[t] the measurements task t      *)
(* reports and done[t] the number of its add_measurement calls that        *)
(* returned, len[t] the length Vec::push found.                            *)
(***************************************************************************)
\* RunContext::from_instance, then the action starts its tasks; the reports
\* are ones add_measurement accepts
RunBegin(p, reports) ==
    LET outputs == Get(inst[p]).experiment_version.output_variables
    IN  /\ pc[p] = Idle
        /\ IsSome(inst[p])
        /\ \A t \in Tasks : CheckReports(outputs, reports[t]) = "ok"
        /\ pc' = [pc EXCEPT ![p] =
             [at |-> "run_fn",
              measurements |-> <<>>,
              holder |-> None,
              plan |-> [t \in Tasks |-> AsVariableValues(outputs, reports[t])],
              done |-> [t \in Tasks |-> 0],
              stage |-> [t \in Tasks |-> "idle"],
              len |-> [t \in Tasks |-> 0]]]
        /\ UNCHANGED <<db, ver, inst, last, now, build, env>>

\* A mutex that lets every caller in
MutexNeverHeld(context) == TRUE

\* Mutex::lock returns when no other caller holds the guard
MutexFree(context) == context.holder = None

\* add_measurement of task t up to the start of Vec::push: the variable is
\* looked up, the value wrapped, the mutex locked, the length read
AddMeasurementLock(p, t) ==
    /\ pc[p].at = "run_fn"
    /\ pc[p].stage[t] = "idle"
    /\ pc[p].done[t] < Len(pc[p].plan[t])
    /\ MutexFree(pc[p])
    /\ pc' = [pc EXCEPT ![p].holder = Some(t),
                        ![p].stage[t] = "push",
                        ![p].len[t] = Len(pc[p].measurements)]
    /\ UNCHANGED <<db, ver, inst, last, now, build, env>>

\* Vec::push writes the element after the length it read and sets the new
\* length; add_measurement returns and the guard is dropped
AddMeasurementPush(p, t) ==
    /\ pc[p].at = "run_fn"
    /\ pc[p].stage[t] = "push"
    /\ pc' = [pc EXCEPT
                ![p].measurements =
                    Append(SubSeq(@, 1, pc[p].len[t]),
                           pc[p].plan[t][pc[p].done[t] + 1]),
                ![p].done[t] = @ + 1,
                ![p].stage[t] = "idle",
                ![p].len[t] = 0,
                ![p].holder = None]
    /\ UNCHANGED <<db, ver, inst, last, now, build, env>>

\* Every task has finished and the action returns Ok: run goes on with
\* to_run and sync_with_db
RunEnd(p, fail_at) ==
    /\ pc[p].at = "run_fn"
    /\ \A t \in Tasks :
          pc[p].stage[t] = "idle" /\ pc[p].done[t] = Len(pc[p].plan[t])
    /\ RunReturn(p, "ok", pc[p].measurements, TRUE, fail_at)

(***************************************************************************)
(* Cascade deletion (postgres.rs).                                         *)
(***************************************************************************)
\* A delete that stops after unlinking the variables of the version
unlink_variables_stmts(experiment_version_id) ==
    <<[op |-> "delete_links_of_version", id |-> experiment_version_id]>>

\* PostgresClient::delete_experiment_version(id, transaction)
delete_experiment_version_stmts(experiment_version_id) ==
    <<[op |-> "delete_links_of_version", id |-> experiment_version_id],
      [op |-> "delete_measurements_of_version", id |-> experiment_version_id],
      [op |-> "delete_runs_of_version", id |-> experiment_version_id],
      [op |-> "delete_in_values_of_version", id |-> experiment_version_id],
      [op |-> "delete_instances_of_version", id |-> experiment_version_id],
      [op |-> "delete_version", id |-> experiment_version_id]>>

\* PostgresClient::delete_experiment_instance(id, transaction)
delete_experiment_instance_stmts(instance_id) ==
    <<[op |-> "delete_measurements_of_instance", id |-> instance_id],
      [op |-> "delete_runs_of_instance", id |-> instance_id],
      [op |-> "delete_in_values_of_instance", id |-> instance_id],
      [op |-> "delete_instance", id |-> instance_id]>>

\* Database::delete_experiment, the statements of its transaction for the
\* versions it fetched before
delete_experiment_stmts(name, version_ids) ==
    Flatten([i \in DOMAIN SetToSeq(version_ids) |->
                delete_experiment_version_stmts(SetToSeq(version_ids)[i])])
    \o <<[op |-> "delete_experiment", name |-> name]>>

\* Database::delete_experiment up to its transaction: fetch the versions of
\* the name; with none, return Ok at once
DeleteExperimentFetch(p, name, fail) ==
    LET versions_of_experiment == fetch_all_experiment_versions_by_name(db, name)
    IN  /\ pc[p] = Idle
        /\ UNCHANGED <<db, ver, inst, now, build, env>>
        /\ IF fail
           THEN /\ last' = Result("delete_experiment", "err_fetch")
                /\ UNCHANGED pc
           ELSE IF versions_of_experiment = {}
           THEN /\ last' = Result("delete_experiment", "ok")
                /\ UNCHANGED pc
           ELSE /\ pc' = [pc EXCEPT ![p] =
                     [at |-> "delete_experiment", name |-> name,
                      versions |-> {v.id : v \in versions_of_experiment}]]
                /\ UNCHANGED last

\* Database::delete_experiment, its transaction
DeleteExperimentCommit(p, fail_at) ==
    LET stmts == delete_experiment_stmts(pc[p].name, pc[p].versions)
        r == Transaction(stmts, db, fail_at)
    IN  /\ pc[p].at = "delete_experiment"
        /\ fail_at \in FailPoints(stmts)
        /\ db' = r.db
        /\ last' = Result("delete_experiment", IF r.ok THEN "ok" ELSE "err_store")
        /\ pc' = [pc EXCEPT ![p] = Idle]
        /\ UNCHANGED <<ver, inst, now, build, env>>

\* Database::delete_experiment_version on the version the process holds
DeleteExperimentVersion(p, fail_at) ==
    LET stmts == delete_experiment_version_stmts(Get(ver[p]).id)
        r == Transaction(stmts, db, fail_at)
    IN  /\ pc[p] = Idle
        /\ IsSome(ver[p])
        /\ fail_at \in FailPoints(stmts)
        /\ db' = r.db
        /\ last' = Result("delete_experiment_version",
                            IF r.ok THEN "ok" ELSE "err_store")
        /\ UNCHANGED <<pc, ver, inst, now, build, env>>

\* Database::delete_experiment_instance on the instance the process holds
DeleteExperimentInstance(p, fail_at) ==
    LET stmts == delete_experiment_instance_stmts(Get(inst[p]).id)
        r == Transaction(stmts, db, fail_at)
    IN  /\ pc[p] = Idle
        /\ IsSome(inst[p])
        /\ fail_at \in FailPoints(stmts)
        /\ db' = r.db
        /\ last' = Result("delete_experiment_instance",
                            IF r.ok THEN "ok" ELSE "err_store")
        /\ UNCHANGED <<pc, ver, inst, now, build, env>>

(***************************************************************************)
(* The system: processes sharing one store.                                *)
(***************************************************************************)
\* The largest transaction, delete_experiment: six statements for each
\* version, the DELETE of the experiments row, and commit
MaxFailPoint == 6 * MaxRows + 2

\* The store calls that may fail with a store error (connection loss, abort)
Fails(faulty) == IF faulty THEN BOOLEAN ELSE {FALSE}
FailAts(faulty) == IF faulty THEN 0..MaxFailPoint ELSE {0}

Init ==
    /\ db = EmptyDb
    /\ pc = [p \in Procs |-> Idle]
    /\ ver = [p \in Procs |-> None]
    /\ inst = [p \in Procs |-> None]
    /\ last = Result("none", "none")
    /\ now = 0
    /\ build \in {b \in [Procs -> BuildTags] : b["p1"] = "b1"}
    /\ env = [p \in Procs |-> None]

\* ExperimentVersion::get_current_version
ResolveStep(p, configs, faulty) ==
    \/ \E cfg \in configs, fail \in Fails(faulty) : SyncFetch(p, cfg, fail)
    \/ \E fail_at \in FailAts(faulty) : SyncInsertExperiment(p, fail_at)
    \/ \E fail_at \in FailAts(faulty) : SyncInsertVersion(p, fail_at)

\* ExperimentVersion::make_instance
InstanceStep(p, value_lists, faulty) ==
    \/ \E pairs \in value_lists, fail \in Fails(faulty) :
          MakeInstanceFetch(p, pairs, fail)
    \/ \E fail_at \in FailAts(faulty) : MakeInstanceInsert(p, fail_at)

\* ExperimentInstance::run
RunStep(p, report_lists, faulty) ==
    \E reports \in report_lists, action_ok \in BOOLEAN :
        \E fail_at \in FailAts(faulty) \cap (0 .. (Len(reports) + 2)) :
            Run(p, reports, action_ok, fail_at)

(***************************************************************************)
(* Spec: two unsynchronized processes sharing the store.  p1 resolves the  *)
(* version, makes instances, runs and deletes what it holds; p2 resolves   *)
(* the same experiment and deletes it by name.  The delete transactions    *)
(* also fail at any of their calls with a store error; every transaction   *)
(* fails when a statement violates a constraint of the schema.             *)
(***************************************************************************)
SharedConfigs == {BaseConfig}
SharedValueLists == {<<<<"X", String("a")>>>>}
SharedReportLists == {<<<<"Y", Numeric("1")>>>>}

Spec ==
    Init /\ [][\/ ResolveStep("p1", SharedConfigs, FALSE)
               \/ InstanceStep("p1", SharedValueLists, FALSE)
               \/ RunStep("p1", SharedReportLists, FALSE)
               \/ \E fail_at \in FailAts(TRUE) : DeleteExperimentInstance("p1", fail_at)
               \/ \E fail_at \in FailAts(TRUE) : DeleteExperimentVersion("p1", fail_at)
               \/ ResolveStep("p2", SharedConfigs, FALSE)
               \/ \E name \in Names, fail \in BOOLEAN : DeleteExperimentFetch("p2", name, fail)
               \/ \E fail_at \in FailAts(TRUE) : DeleteExperimentCommit("p2", fail_at)]_vars

(***************************************************************************)
(* The sequential specifications: one process, p1, and the inputs of one   *)
(* concern each.                                                           *)
(***************************************************************************)
InitSeq == Init /\ build["p2"] = "b1"

\* Versions: resolving under changing arguments, deleting.  BaseConfig with
\* one argument changed: the description, the researchers (to none), an input
\* variable (X declared anew with another description), the output variables
VersionConfigs ==
    {BaseConfig,
     [BaseConfig EXCEPT !.description = "d2"],
     [BaseConfig EXCEPT !.researchers = {}],
     [BaseConfig EXCEPT !.input_variables = {VX2}],
     [BaseConfig EXCEPT !.output_variables = {VY, VW}]}

SpecVersions ==
    InitSeq /\ [][\/ ResolveStep("p1", VersionConfigs, TRUE)
                  \/ \E name \in Names : DeleteExperimentFetch("p1", name, FALSE)
                  \/ DeleteExperimentCommit("p1", 0)
                  \/ DeleteExperimentVersion("p1", 0)]_vars

\* Instances: every value list on versions of two and of no input variables
InstanceConfigs ==
    {BaseConfig,
     [BaseConfig EXCEPT !.input_variables = {VX, VZ}],
     [BaseConfig EXCEPT !.input_variables = {}]}

SpecInstances ==
    InitSeq /\ [][\/ ResolveStep("p1", InstanceConfigs, FALSE)
                  \/ InstanceStep("p1", ValueLists, FALSE)
                  \/ DeleteExperimentInstance("p1", 0)]_vars

\* Runs: every list of reports on versions of one, of two and of no output
\* variables
RunConfigs ==
    {BaseConfig,
     [BaseConfig EXCEPT !.output_variables = {VY, VW}],
     [BaseConfig EXCEPT !.output_variables = {}]}

SpecRuns ==
    InitSeq /\ [][\/ ResolveStep("p1", RunConfigs, FALSE)
                  \/ InstanceStep("p1", SharedValueLists, FALSE)
                  \/ RunStep("p1", ReportLists, TRUE)]_vars

\* Catalog: every operation of one process, on an experiment whose input
\* variable X is declared with two descriptions
SpecCatalog ==
    InitSeq /\ [][\/ ResolveStep("p1", {BaseConfig, [BaseConfig EXCEPT !.input_variables = {VX2}]}, FALSE)
                  \/ InstanceStep("p1", SharedValueLists, FALSE)
                  \/ RunStep("p1", SharedReportLists, FALSE)
                  \/ \E name \in Names : DeleteExperimentFetch("p1", name, FALSE)
                  \/ DeleteExperimentCommit("p1", 0)
                  \/ DeleteExperimentVersion("p1", 0)
                  \/ DeleteExperimentInstance("p1", 0)]_vars

\* Race: two callers resolve the same experiment and make an instance with
\* the same values, their store calls interleaved
SpecRace ==
    Init /\ [][\/ ResolveStep("p1", SharedConfigs, FALSE)
               \/ InstanceStep("p1", SharedValueLists, FALSE)
               \/ ResolveStep("p2", SharedConfigs, FALSE)
               \/ InstanceStep("p2", SharedValueLists, FALSE)]_vars

\* Accumulator: one run whose action reports from concurrent tasks, each
\* task a list of reports for the output variable Y
SpecAccumulator ==
    InitSeq /\ [][\/ SyncFetch("p1", BaseConfig, FALSE)
                  \/ SyncInsertExperiment("p1", 0)
                  \/ InstanceStep("p1", SharedValueLists, FALSE)
                  \/ \E reports \in [Tasks -> SeqsUpTo({<<"Y", Numeric("1")>>, <<"Y", Numeric("2")>>}, MaxReports)] : RunBegin("p1", reports)
                  \/ \E t \in Tasks : AddMeasurementLock("p1", t)
                  \/ \E t \in Tasks : AddMeasurementPush("p1", t)
                  \/ RunEnd("p1", 0)]_vars

(***************************************************************************)
(* Readers: p1 resolves with its fetch taken query by query and its        *)
(* inserts failing at any call; p2 resolves the same experiment and        *)
(* deletes the version it holds.                                           *)
(***************************************************************************)
SpecReaders ==
    Init /\ [][\/ \E cfg \in SharedConfigs : SyncFetchRows("p1", cfg)
               \/ SyncFetchVariables("p1")
               \/ \E fail_at \in FailAts(TRUE) : SyncInsertExperiment("p1", fail_at)
               \/ \E fail_at \in FailAts(TRUE) : SyncInsertVersion("p1", fail_at)
               \/ ResolveStep("p2", SharedConfigs, FALSE)
               \/ DeleteExperimentVersion("p2", 0)]_vars

(***************************************************************************)
(* The properties.                                                         *)
(***************************************************************************)
\* p's last call was a successful get_current_version(cfg) under p's build,
\* nothing happened since, and p now calls get_current_version(cfg) again
SecondResolve(p, cfg) ==
    /\ pc[p] = Idle
    /\ last = Result("get_current_version", "ok")
    /\ IsSome(ver[p])
    /\ LET v == Get(ver[p])
       IN  [name |-> v.name, description |-> v.description,
            researchers |-> v.researchers,
            input_variables |-> v.input_variables,
            output_variables |-> v.output_variables] = cfg
    /\ Get(ver[p]).version = current_version(p)
    /\ SyncFetch(p, cfg, FALSE)

\* C1: a get_current_version that directly follows a successful one with the
\* same arguments and the same build returns at once, with the version of the
\* same id, and leaves every table unchanged.
C1_IdempotentResolution ==
    [][\A cfg \in VersionConfigs :
          SecondResolve("p1", cfg) =>
              /\ db' = db
              /\ pc'["p1"] = Idle
              /\ last' = Result("get_current_version", "ok")
              /\ Get(ver'["p1"]).id = Get(ver["p1"]).id]_vars

\* C2: a get_current_version that finds its arguments changed against the
\* latest version persists a version with a new id, keeps every version that
\* was fetchable fetchable and unchanged, and makes the versions of the name
\* one more, the version it returned among them.
C2_VersionForking ==
    [][(/\ pc["p1"].at = "insert_new_experiment_version"
        /\ pc'["p1"] = Idle
        /\ last' = Result("get_current_version", "ok")) =>
          LET name == pc["p1"].cfg.name
              before == fetch_all_experiment_versions_by_name(db, name)
              after == fetch_all_experiment_versions_by_name(db', name)
              returned == Get(ver'["p1"])
          IN  /\ returned.id \notin {v.id : v \in before}
              /\ before \subseteq after
              /\ Cardinality(after) = Cardinality(before) + 1
              /\ returned \in after]_vars

\* The (name, value) assignment of a list of variable values
Assignment(values) ==
    {<<values[i].variable.name, values[i].value>> : i \in DOMAIN values}

\* The stored instances of a version whose in_values are the assignment
InstancesWith(d, version, values) ==
    {i \in d.experiment_instances :
        /\ i.version_id = version.id
        /\ {<<x.var_name, x.value>> :
               x \in {y \in d.in_values : y.ex_instance_id = i.id}}
             = {<<a[1], to_string(a[2])>> : a \in Assignment(values)}}

\* p's last call was a successful make_instance on the version p holds,
\* nothing happened since, and p now calls make_instance with the same
\* assignment, its values in any order
SecondMakeInstance(p, pairs) ==
    /\ pc[p] = Idle
    /\ last = Result("make_instance", "ok")
    /\ IsSome(ver[p]) /\ IsSome(inst[p])
    /\ Get(inst[p]).experiment_version = Get(ver[p])
    /\ CheckValues(Get(ver[p]).input_variables, pairs) = "ok"
    /\ Len(pairs) = Len(Get(inst[p]).input_variable_values)
    /\ Assignment(AsVariableValues(Get(ver[p]).input_variables, pairs))
         = Assignment(Get(inst[p]).input_variable_values)
    /\ MakeInstanceFetch(p, pairs, FALSE)

\* C3: a make_instance that directly follows a successful one on the same
\* version with the same assignment, in any order of the values, returns at
\* once with the instance of the same id, writes nothing, and the store
\* holds one instance of that assignment.
C3_InstanceDeduplication ==
    [][\A pairs \in ValueLists :
          SecondMakeInstance("p1", pairs) =>
              /\ db' = db
              /\ pc'["p1"] = Idle
              /\ last' = Result("make_instance", "ok")
              /\ Get(inst'["p1"]).id = Get(inst["p1"]).id
              /\ Cardinality(InstancesWith(db', Get(ver["p1"]),
                                Get(inst["p1"]).input_variable_values)) = 1]_vars

\* The names a list of reports names, the names of a set of variables
ReportedNames(reports) == {reports[i][1] : i \in DOMAIN reports}
VariableNamesOf(variables) == {v.name : v \in variables}

\* C4: a run whose action returns Ok after reporting well-typed measurements
\* for a strict subset of the output variables fails with the validation
\* error, and a run whose action reports every output variable and one name
\* that is no output variable fails too; neither changes any table.
C4_RunCompleteness ==
    [][\A reports \in ReportLists :
          LET outputs == Get(inst["p1"]).experiment_version.output_variables
              names == VariableNamesOf(outputs)
          IN  /\ (/\ IsSome(inst["p1"])
                  /\ ReportedNames(reports) \subseteq names
                  /\ ReportedNames(reports) # names
                  /\ CheckReports(outputs, reports) = "ok"
                  /\ Run("p1", reports, TRUE, 0))
                 => last' = Result("run", "err_validation") /\ db' = db
              /\ (/\ IsSome(inst["p1"])
                  /\ names \subseteq ReportedNames(reports)
                  /\ Cardinality(ReportedNames(reports) \ names) = 1
                  /\ Run("p1", reports, TRUE, 0))
                 => last' = Result("run", "panic") /\ db' = db]_vars

\* A run has failed validation on a version of two output variables
C4_Witness ==
    /\ last = Result("run", "err_validation")
    /\ IsSome(inst["p1"])
    /\ Get(inst["p1"]).experiment_version.output_variables = {VY, VW}
    /\ db.experiment_instances # {}
    /\ db.runs = {}

\* delete_experiment(name) returns Ok to p in this step
DeleteExperimentOk(p, name) ==
    /\ \/ DeleteExperimentFetch(p, name, FALSE)
       \/ pc[p].at = "delete_experiment" /\ pc[p].name = name
    /\ pc'[p] = Idle
    /\ last' = Result("delete_experiment", "ok")

\* C5: when delete_experiment(name) returns Ok, the name is no experiment of
\* the store any more, no version, instance, run or measurement that belonged
\* to it is left, and no row references a missing id.
C5_CascadeCompleteness ==
    [][\A name \in Names :
          DeleteExperimentOk("p1", name) =>
              LET versions == {v.id : v \in {w \in db.experiment_versions :
                                                w.name = name}}
                  instances == {i.id : i \in {j \in db.experiment_instances :
                                                j.version_id \in versions}}
                  runs == {r.id : r \in {q \in db.runs :
                                            q.ex_instance_id \in instances}}
              IN  /\ name \notin fetch_experiments(db')
                  /\ fetch_all_experiment_versions_by_name(db', name) = {}
                  /\ VersionIds(db') \cap versions = {}
                  /\ InstanceIds(db') \cap instances = {}
                  /\ RunIds(db') \cap runs = {}
                  /\ \A m \in db'.measurements : m.run_id \notin runs
                  /\ \A l \in db'.experiment_variables :
                         l.ex_version_id \notin versions
                  /\ \A x \in db'.in_values :
                         x.ex_instance_id \notin instances]_vars

\* C6: in every reachable state of the two processes, every version's name
\* is an experiment, every variable link and every instance references a
\* stored version, every in_value and every run a stored instance, and every
\* measurement a stored run.
C6_ReferentialConsistency ==
    /\ \A v \in db.experiment_versions : v.name \in db.experiments
    /\ \A l \in db.experiment_variables :
          \E v \in db.experiment_versions : v.id = l.ex_version_id
    /\ \A i \in db.experiment_instances :
          \E v \in db.experiment_versions : v.id = i.version_id
    /\ \A x \in db.in_values :
          \E i \in db.experiment_instances : i.id = x.ex_instance_id
    /\ \A r \in db.runs :
          \E i \in db.experiment_instances : i.id = r.ex_instance_id
    /\ \A m \in db.measurements : \E r \in db.runs : r.id = m.run_id

\* p1 holds an instance that is not stored any more, its run was refused,
\* and the experiment has been registered again meanwhile
C6_Witness ==
    /\ last = Result("run", "err_store")
    /\ IsSome(inst["p1"])
    /\ Get(inst["p1"]).id \notin InstanceIds(db)
    /\ db.experiment_versions # {}

DeleteOps ==
    {"delete_experiment", "delete_experiment_version",
     "delete_experiment_instance"}

\* C7: a step that ends delete_experiment, delete_experiment_version or
\* delete_experiment_instance with an error of its transaction leaves every
\* table as it was before the transaction.
C7_DeleteAtomicity ==
    [][(last'.op \in DeleteOps /\ last'.outcome = "err_store") =>
          db' = db]_vars

\* delete_experiment has failed and the run with its measurement, its
\* instance and its version are all still stored
C7_Witness ==
    /\ last = Result("delete_experiment", "err_store")
    /\ db.measurements # {}
    /\ db.runs # {}
    /\ db.experiment_instances # {}
    /\ db.experiment_versions # {}

\* The names of the variables a stored version is linked to as `kind`
LinkedNames(d, version_id, kind) ==
    {l.var_name : l \in {k \in d.experiment_variables :
                            k.ex_version_id = version_id
                            /\ FromJson(k.kind) = kind}}

\* C8: every stored run has exactly one measurement row for each output
\* variable of the version of its instance, and no other measurement row.
C8_OneMeasurementPerOutput ==
    \A r \in db.runs :
        \A i \in {j \in db.experiment_instances : j.id = r.ex_instance_id} :
            LET rows == {m \in db.measurements : m.run_id = r.id}
                outputs == LinkedNames(db, i.version_id, "Output")
            IN  /\ \A m \in rows : m.var_name \in outputs
                /\ \A name \in outputs :
                      Cardinality({m \in rows : m.var_name = name}) = 1

\* C9: every stored instance has exactly one in_values row for each input
\* variable of its version, and no other in_values row.
C9_OneValuePerInput ==
    \A i \in db.experiment_instances :
        LET rows == {x \in db.in_values : x.ex_instance_id = i.id}
            inputs == LinkedNames(db, i.version_id, "Input")
        IN  /\ \A x \in rows : x.var_name \in inputs
            /\ \A name \in inputs :
                  Cardinality({x \in rows : x.var_name = name}) = 1

\* C10: a run whose action returns an error ends with that error, and a run
\* that ends with the action's error or with the validation error leaves
\* the runs and the measurements as they were.
C10_FailedRunWritesNothing ==
    [][\A reports \in ReportLists, action_ok \in BOOLEAN :
          (IsSome(inst["p1"]) /\ Run("p1", reports, action_ok, 0)) =>
              LET outputs == Get(inst["p1"]).experiment_version.output_variables
              IN  /\ (~action_ok /\ CheckReports(outputs, reports) = "ok")
                        => last' = Result("run", "err_action") /\ db' = db
                  /\ last'.outcome \in {"err_action", "err_validation"}
                        => /\ db'.runs = db.runs
                           /\ db'.measurements = db.measurements]_vars

\* The action of a run has returned an error while an earlier run of the
\* instance is stored
C10_Witness ==
    /\ last = Result("run", "err_action")
    /\ IsSome(inst["p1"])
    /\ \E r \in db.runs : r.ex_instance_id = Get(inst["p1"]).id
    /\ db.measurements # {}

\* C11: make_instance with value names that are not exactly the names of the
\* version's input variables (one missing, or an unknown one present) fails
\* with the caller's error (Err for an unknown name, panic otherwise): it
\* returns no instance, starts no insert, and leaves every table as it was.
C11_WrongNamesRejected ==
    [][(/\ pc["p1"] = Idle
        /\ IsSome(ver["p1"])
        /\ \E pairs \in ValueLists :
              /\ ReportedNames(pairs)
                    # VariableNamesOf(Get(ver["p1"]).input_variables)
              /\ MakeInstanceFetch("p1", pairs, FALSE))
       => /\ last' \in {Result("make_instance", "err_name"),
                        Result("make_instance", "panic")}
          /\ db' = db
          /\ inst' = inst
          /\ pc'["p1"] = Idle]_vars

\* A call that named a variable the version does not have has been refused,
\* on a version with two input variables whose store already holds an instance
C11_Witness ==
    /\ last = Result("make_instance", "err_name")
    /\ IsSome(ver["p1"])
    /\ Cardinality(Get(ver["p1"]).input_variables) = 2
    /\ db.experiment_instances # {}

\* The inserts of get_current_version
PersistSteps == {"insert_new_experiment", "insert_new_experiment_version"}

\* C12: the persist step of version resolution is atomic.  (a) A
\* get_current_version whose insert fails leaves every table as it was: no
\* experiments, variables, experiment_versions or experiment_variables row of
\* the call exists.  (b) Every version a process reads from the store is a
\* version the store holds with all its variable links: no reader sees a
\* version row without them.
C12_PersistAtomic ==
    [][\A p \in Procs :
         /\ (/\ pc[p].at \in PersistSteps
             /\ pc'[p] = Idle
             /\ last' = Result("get_current_version", "err_store"))
            => db' = db
         /\ (pc[p].at = "fetch_variables" /\ pc'[p] # pc[p])
            => VersionsRead(p)
                 \subseteq fetch_all_experiment_versions_by_name(db, pc[p].cfg.name)
      ]_vars

\* C13: the variable catalog is append-only.  Every row of the variables
\* table (name, description, type) of a state is a row of the table in the
\* next state, whatever step is taken: a version resolved with the name
\* declared differently, an instance, a run, any delete.
C13_CatalogAppendOnly ==
    [][\A v \in db.variables : v \in db'.variables]_vars

\* The process holds a version it resolved with X declared anew, that version
\* has been deleted with everything under it, and the catalog still has the
\* row of X as first declared
C13_Witness ==
    /\ IsSome(ver["p1"])
    /\ VX2 \in Get(ver["p1"]).input_variables
    /\ db.experiment_versions = {}
    /\ VariableRow(VX) \in db.variables

\* C14: a stored version is immutable.  Every version read from the store in
\* a state whose id is still stored in the next state is read with the same
\* id, name, tag, date, description, researchers, input and output variables
\* in the next state, whatever step is taken.
C14_VersionImmutable ==
    [][\A name \in Names :
         \A v \in fetch_all_experiment_versions_by_name(db, name) :
            v.id \in VersionIds(db')
            => v \in fetch_all_experiment_versions_by_name(db', name)]_vars

\* Two versions of the experiment are stored, the later one resolved with X
\* declared anew, and an instance has been made
C14_Witness ==
    /\ Cardinality(fetch_all_experiment_versions_by_name(db, BaseConfig.name)) = 2
    /\ IsSome(ver["p1"])
    /\ VX2 \in Get(ver["p1"]).input_variables
    /\ db.experiment_instances # {}

\* C15: the resolution of an instance is a fetch followed by an insert, and
\* nothing refuses the insert of a resolver that found no instance: it
\* succeeds and adds an instance with its assignment whatever the store holds
\* by then, so two resolvers that both found none both insert (the witness:
\* one version holding two instances with the same assignment).
C15_InsertNotRefused ==
    [][\A p \in Procs :
         (pc[p].at = "insert_new_experiment_instance" /\ pc'[p] = Idle)
         => /\ last' = Result("make_instance", "ok")
            /\ IsSome(inst'[p])
            /\ Get(inst'[p]).id \notin InstanceIds(db)
            /\ InstancesWith(db', pc[p].version, pc[p].values)
                 = InstancesWith(db, pc[p].version, pc[p].values)
                     \cup {i \in db'.experiment_instances :
                             i.id = Get(inst'[p]).id}]_vars

\* Both callers hold the same version and returned from make_instance with
\* the value X = a, each with an instance of its own
C15_Witness ==
    /\ IsSome(ver["p1"]) /\ ver["p2"] = ver["p1"]
    /\ IsSome(inst["p1"]) /\ IsSome(inst["p2"])
    /\ Get(inst["p1"]).id # Get(inst["p2"]).id
    /\ Get(inst["p1"]).input_variable_values
         = Get(inst["p2"]).input_variable_values
    /\ Get(inst["p1"]).input_variable_values # <<>>
    /\ Cardinality(InstancesWith(db, Get(ver["p1"]),
                                 Get(inst["p1"]).input_variable_values)) = 2

\* C16: an operation holds the connection from its first read to its last
\* write, in one transaction: while a caller is between the read call and the
\* write call of its operation (version resolve, instance resolve, delete by
\* name), the next store call is that caller's write, and no call of another
\* caller comes in between.  The callers are threads sharing the connection
\* of the process or processes with their own: the mutex of the connection
\* is taken by each store call and released when it returns.
C16_NoInterleaving ==
    [][\A p \in Procs : pc[p] # Idle => pc'[p] = Idle]_vars

CountIn(seq, x) == Cardinality({i \in DOMAIN seq : seq[i] = x})

\* The measurements whose add_measurement has returned, task after task
Reported(context) ==
    LET ts == SetToSeq(Tasks)
    IN  Flatten([i \in DOMAIN ts |->
                   SubSeq(context.plan[ts[i]], 1, context.done[ts[i]])])

\* C17: the accumulator of a run serializes its reporters.  While the action
\* runs, at most one task is inside Vec::push and it holds the mutex, and the
\* accumulator holds each measurement as many times as add_measurement calls
\* with it have returned: after all tasks finish it is the multiset of the
\* reported pairs, none lost, none duplicated.
C17_AccumulatorSerializes ==
    \A p \in Procs :
        pc[p].at = "run_fn"
        => /\ \A t, u \in Tasks :
                 pc[p].stage[t] = "push"
                 => pc[p].holder = Some(t) /\ (u # t => pc[p].stage[u] = "idle")
           /\ Len(pc[p].measurements) = Len(Reported(pc[p]))
           /\ \A i \in DOMAIN pc[p].measurements :
                 CountIn(pc[p].measurements, pc[p].measurements[i])
                   = CountIn(Reported(pc[p]), pc[p].measurements[i])

\* Both tasks have finished two reports each, one pair reported by both
C17_Witness ==
    /\ pc["p1"].at = "run_fn"
    /\ \A t \in Tasks : pc["p1"].done[t] = 2 /\ Len(pc["p1"].plan[t]) = 2
    /\ pc["p1"].plan["t1"][1] = pc["p1"].plan["t2"][1]
    /\ pc["p1"].plan["t1"][2] # pc["p1"].plan["t2"][2]
    /\ Len(pc["p1"].measurements) = 4

\* C18: when get_current_version has registered a new experiment name and
\* returned the version V, fetch_experiments contains the name of V and
\* fetch_specific_experiment_version(name, tag of V) returns a version equal
\* to V in id, name, tag, date, description, researchers, input variables and
\* output variables, for every choice of researchers and variables.
C18_RegisterThenFetch ==
    [][\A p \in Procs :
         (/\ pc[p].at = "insert_new_experiment"
          /\ pc'[p] = Idle
          /\ last' = Result("get_current_version", "ok"))
         => /\ IsSome(ver'[p])
            /\ Get(ver'[p]).name \in fetch_experiments(db')
            /\ fetch_specific_experiment_version(
                   db', Get(ver'[p]).name, Get(ver'[p]).version)
                 = {ver'[p]}]_vars

\* C19: read-your-writes for instances.  When make_instance on the version V
\* has returned the instance I, fetch_instance_from_id(id of I, V) in the same
\* process returns an instance with the id of I, the version V and the same
\* set of (variable, value) pairs, for every version and every value list
\* make_instance accepts.
C19_ReadYourInstance ==
    \A p \in Procs :
        (last = Result("make_instance", "ok") /\ pc[p] = Idle /\ IsSome(inst[p]))
        => LET I == Get(inst[p])
               found == fetch_instance_from_id(db, I.id, I.experiment_version)
           IN  /\ IsSome(found)
               /\ \E j \in Get(found) :
                     /\ j.id = I.id
                     /\ j.experiment_version = I.experiment_version
                     /\ Assignment(j.input_variable_values)
                          = Assignment(I.input_variable_values)

\* C20: every successful run is read back.  When a run call on the instance I
\* has returned a run (no deletes), fetch_all_runs_of_instance(I) returns as
\* many runs as run calls on I have succeeded (one runs row each), among them
\* one with the id, date, instance and measurement values of the run that was
\* returned, whatever the output variables of the version.
C20_RunsReadBack ==
    [][\A reports \in ReportLists :
         (/\ pc["p1"] = Idle
          /\ IsSome(inst["p1"])
          /\ Run("p1", reports, TRUE, 0)
          /\ last' = Result("run", "ok"))
         => LET I == Get(inst["p1"])
                measurements ==
                    AsVariableValues(I.experiment_version.output_variables,
                                     reports)
            IN  \A fetched \in fetch_all_runs_of_instance(db', I) :
                   /\ IsSome(fetched)
                   /\ Len(Get(fetched))
                        = Cardinality({r \in db'.runs : r.ex_instance_id = I.id})
                   /\ \E k \in DOMAIN Get(fetched) :
                         /\ Get(fetched)[k].id \in RunIds(db') \ RunIds(db)
                         /\ Get(fetched)[k].date = now'
                         /\ Get(fetched)[k].experiment_instance = I
                         /\ Len(Get(fetched)[k].measurements) = Len(measurements)
                         /\ Assignment(Get(fetched)[k].measurements)
                              = Assignment(measurements)]_vars

(***************************************************************************)
(* SpecLocal: one process that sets EXAR_LOCAL and resolves, instantiates  *)
(* and runs, with and without the store.                                   *)
(***************************************************************************)
\* What the action of a run reports: nothing, one pair, every output
\* variable and more
LocalReportLists ==
    SeqsUpTo(ReportPairs, 1)
    \cup {<<<<"Y", Numeric("1")>>, <<"Q", Numeric("1")>>>>,
          <<<<"Y", Numeric("1")>>, <<"Y", Numeric("2")>>>>}

\* std::env::set_var("EXAR_LOCAL", value) between two calls of the library
set_var(p, value) ==
    /\ pc[p] = Idle
    /\ env' = [env EXCEPT ![p] = Some(value)]
    /\ UNCHANGED <<db, pc, ver, inst, last, now, build>>

SpecLocal ==
    InitSeq /\ [][\/ \E value \in {"1", "0"} : set_var("p1", value)
                  \/ SyncFetch("p1", BaseConfig, FALSE)
                  \/ SyncInsertExperiment("p1", 0)
                  \/ InstanceStep("p1", SharedValueLists, FALSE)
                  \/ RunStep("p1", LocalReportLists, FALSE)]_vars

GenericValues ==
    {Numeric(x) : x \in F64Texts}
    \cup {String(s) : s \in {"", "a", "b", "a,b", "a\nb", "a;b", " a ",
                            "1", "NaN", "true"}}
    \cup {Bool(b) : b \in BoolTexts}

\* A variable of any DataType and a value offered for it
InitValues ==
    /\ db = EmptyDb
    /\ pc = [p \in Procs |-> Idle]
    /\ ver = [p \in Procs |-> None]
    /\ inst = [p \in Procs |-> None]
    /\ now = 0
    /\ build = [p \in Procs |-> "b1"]
    /\ env = [p \in Procs |-> None]
    /\ last \in {[op |-> "value", variable |-> Variable("v", "d", data_type),
                  value |-> value, text |-> "", parsed |-> None] :
                    data_type \in NumericTypes \cup StringTypes \cup {"Bool"},
                    value \in GenericValues}

\* VariableValue::from_variable, the value written as text, the text parsed
\* as the DataType of the variable
RoundTrip ==
    /\ last.op = "value"
    /\ accepts(last.variable, last.value)
    /\ last' = [last EXCEPT
                  !.op = "round_trip",
                  !.text = to_string(last.value),
                  !.parsed = parse_str_as_generic_value(
                                 last.variable.data_type,
                                 to_string(last.value))]
    /\ UNCHANGED <<db, pc, ver, inst, now, build, env>>

SpecValues == InitValues /\ [][RoundTrip]_vars

\* C22: value round trip.  For every DataType and every GenericValue v a
\* variable of that type accepts, parse_str_as_generic_value(v.to_string())
\* returns a value equal to v.
C22_ValueRoundTrip ==
    last.op = "round_trip"
    => /\ IsSome(last.parsed)
       /\ GenericValueEq(Get(last.parsed), last.value)

(***************************************************************************)
(* SpecTypes: one process resolves the experiment with its input X         *)
(* declared as a Number and as a Label, makes instances and runs.          *)
(***************************************************************************)
SpecTypes ==
    InitSeq /\ [][\/ ResolveStep("p1", {BaseConfig, [BaseConfig EXCEPT !.input_variables = {Variable("X", "dx", "Number")}]}, FALSE)
                  \/ InstanceStep("p1", {<<<<"X", String("a")>>>>,
                                         <<<<"X", Numeric("1")>>>>}, FALSE)
                  \/ RunStep("p1", SharedReportLists, FALSE)]_vars

\* C23: stored values parse.  In every reachable store state, every value
\* text of in_values and of measurements parses as the DataType the variables
\* catalog declares for the variable name of the row.
C23_StoredValuesParse ==
    \A row \in db.in_values \cup db.measurements :
        \E v \in db.variables :
            /\ v.name = row.var_name
            /\ IsSome(parse_str_as_generic_value(FromJson(v.type), row.value))

C26_BottomUpOrder ==
    LET Rank(op) ==
            CASE op \in {"delete_measurements_of_version",
                         "delete_measurements_of_instance"} -> 1
              [] op \in {"delete_runs_of_version",
                         "delete_runs_of_instance"} -> 2
              [] op \in {"delete_in_values_of_version",
                         "delete_in_values_of_instance"} -> 3
              [] op \in {"delete_instances_of_version", "delete_instance"} -> 4
              [] op = "delete_links_of_version" -> 5
              [] op = "delete_version" -> 6
              [] OTHER -> 7
        InOrder(stmts) ==
            \A i, j \in DOMAIN stmts :
                i < j => Rank(stmts[i].op) < Rank(stmts[j].op)
    IN  /\ IsSome(inst["p1"])
           => InOrder(delete_experiment_instance_stmts(Get(inst["p1"]).id))
        /\ IsSome(ver["p1"])
           => InOrder(delete_experiment_version_stmts(Get(ver["p1"]).id))
        /\ pc["p1"].at = "delete_experiment"
           => LET stmts == delete_experiment_stmts(pc["p1"].name,
                                                   pc["p1"].versions)
                  OfVersion(id) == LET Is(stmt) == stmt.op # "delete_experiment"
                                                    /\ stmt.id = id
                                   IN  SelectSeq(stmts, Is)
              IN  /\ stmts[Len(stmts)].op = "delete_experiment"
                  /\ \A id \in pc["p1"].versions : InOrder(OfVersion(id))

\* C29: a name without versions resolves.  When get_current_version(name, ...)
\* has found no version of the name in the store, whatever resolves and
\* deletes ran before, its insert (no store fault) registers the name,
\* persists a new version of it and returns that version.
C29_ResolveWithoutVersions ==
    [][SyncInsertExperiment("p1", 0)
       => /\ last' = Result("get_current_version", "ok")
          /\ pc["p1"].cfg.name \in fetch_experiments(db')
          /\ IsSome(ver'["p1"])
          /\ Get(ver'["p1"]).name = pc["p1"].cfg.name
          /\ Get(ver'["p1"]).id \in VersionIds(db') \ VersionIds(db)]_vars

\* C30: the match of fetch_specific_instance.  For the version the process
\* holds, every requested value list the version accepts and every instance
\* of the version read from the store: the instance is one that
\* fetch_specific_instance may return if and only if its value assignment is
\* set-equal to the requested one and has the same count.
C30_MatchIsSetEquality ==
    IsSome(ver["p1"]) =>
        LET version == Get(ver["p1"])
            stored == fetch_all_instances_of_experiment_version(db, version)
        IN  \A pairs \in ValueLists :
               (/\ CheckValues(version.input_variables, pairs) = "ok"
                /\ IsSome(stored))
               => LET requested ==
                          AsVariableValues(version.input_variables, pairs)
                      found == fetch_specific_instance(db, version, requested)
                  IN  /\ IsSome(found)
                      /\ \A i \in Get(stored) :
                            i \in Get(found)
                            <=> /\ Assignment(i.input_variable_values)
                                     = Assignment(requested)
                                /\ Len(i.input_variable_values)
                                     = Len(requested)

(***************************************************************************)
(* The first crate (src/src): experiments without versions.  An experiment *)
(* has a name, a description, a researcher and a set of variables (name,   *)
(* description, unit); a run gets the next run number of its experiment    *)
(* and one measurement for each variable.  In SpecLegacy the variable db   *)
(* holds the tables of this crate and ver the Experiment a process holds.  *)
(* Timestamps are read by no operation and are left out of the rows.       *)
(***************************************************************************)
\* The arguments of Experiment::new: the experiment "E" with the variable a,
\* and with another description, researcher, unit of a, and variable set
LegacyConfigs ==
    LET a == [name |-> "a", description |-> "da", unit |-> "u1"]
        b == [name |-> "b", description |-> "db", unit |-> "u1"]
        base == [name |-> "E", description |-> "d1", researcher |-> "ann",
                 required_variables |-> {a}]
    IN  {base,
         [base EXCEPT !.description = "d2"],
         [base EXCEPT !.researcher = "bob"],
         [base EXCEPT !.required_variables = {[a EXCEPT !.unit = "u2"]}],
         [base EXCEPT !.required_variables = {a, b}],
         [base EXCEPT !.required_variables = {b}]}

LegacyInit ==
    /\ db = [experiments |-> {}, variables |-> {}, experiment_variables |-> {},
             experiment_runs |-> {}, measurements |-> {}]
    /\ pc = [p \in Procs |-> Idle]
    /\ ver = [p \in Procs |-> None]
    /\ inst = [p \in Procs |-> None]
    /\ last = Result("none", "none")
    /\ now = 0
    /\ build = [p \in Procs |-> "b1"]
    /\ env = [p \in Procs |-> None]

\* gen_unique_id called k times: the k least numbers that no row and no
\* handle carries
LegacyNewIds(d, k) ==
    LET used == {e.id : e \in d.experiments} \cup {v.id : v \in d.variables}
                \cup {r.id : r \in d.experiment_runs}
                \cup {r.experimentid : r \in d.experiment_runs}
                \cup {m.experimentid : m \in d.measurements}
                \cup {l.experiment_id : l \in d.experiment_variables}
                \cup {Get(ver[p]).id : p \in {q \in Procs : IsSome(ver[q])}}
        free == (1 .. (Cardinality(used) + k)) \ used
    IN  [i \in 1 .. k |->
            CHOOSE n \in free : Cardinality({m \in free : m < n}) = i - 1]

\* VariableTemplate::fetch_from_db: the stored variable matching the template
fetch_from_db(d, template) ==
    LET found == {v \in d.variables : v.template = template}
    IN  IF found = {} THEN None ELSE Some(CHOOSE v \in found : TRUE)

\* Experiment::get_experiment_from_db_by_name with query_variables_for_experiment
\* (one process creates experiments here, so a name has at most one row)
get_experiment_from_db_by_name(d, name) ==
    LET rows == {e \in d.experiments : e.name = name}
        row == CHOOSE e \in rows : TRUE
    IN  IF rows = {} THEN None
        ELSE Some([id |-> row.id, name |-> name,
                   description |-> row.description,
                   researcher |-> row.researcher,
                   required_variables |->
                       {v \in d.variables :
                           \E l \in d.experiment_variables :
                               /\ l.experiment_id = row.id
                               /\ l.variable_id = v.id}])

\* Experiment::new
ExperimentNew(p, cfg, fail) ==
    LET known == get_experiment_from_db_by_name(db, cfg.name)
        experiment == Get(known)
        diff_variables ==
            {v \in experiment.required_variables :
                ~\E t \in cfg.required_variables : t.name = v.template.name}
        missing == SetToSeq({t \in cfg.required_variables :
                                ~IsSome(fetch_from_db(db, t))})
        ids == LegacyNewIds(db, Len(missing) + 1)
        inserted == {[id |-> ids[i], template |-> missing[i]] :
                        i \in DOMAIN missing}
        variables ==
            inserted \cup {Get(fetch_from_db(db, t)) :
                             t \in {u \in cfg.required_variables :
                                       IsSome(fetch_from_db(db, u))}}
        id == ids[Len(missing) + 1]
    IN  /\ pc[p] = Idle
        /\ UNCHANGED <<pc, inst, now, build, env>>
        /\ IF IsSome(known)
           THEN /\ ~fail
                /\ UNCHANGED db
                /\ IF \/ experiment.description # cfg.description
                      \/ experiment.researcher # cfg.researcher
                      \/ Cardinality(experiment.required_variables)
                           # Cardinality(cfg.required_variables)
                      \/ diff_variables # {}
                   THEN /\ last' = Result("new", "err_name")
                        /\ UNCHANGED ver
                   ELSE /\ last' = Result("new", "ok")
                        /\ ver' = [ver EXCEPT ![p] = known]
           ELSE IF fail
           THEN /\ last' = Result("new", "err_store")
                /\ UNCHANGED <<db, ver>>
           ELSE /\ db' = [db EXCEPT
                    !.variables = @ \cup inserted,
                    !.experiments = @ \cup
                        {[id |-> id, researcher |-> cfg.researcher,
                          name |-> cfg.name,
                          description |-> cfg.description]},
                    !.experiment_variables = @ \cup
                        {[experiment_id |-> id, variable_id |-> v.id] :
                            v \in variables}]
                /\ ver' = [ver EXCEPT ![p] =
                     Some([id |-> id, name |-> cfg.name,
                           description |-> cfg.description,
                           researcher |-> cfg.researcher,
                           required_variables |-> variables])]
                /\ last' = Result("new", "ok")

\* Experiment::run on the experiment the process holds; the function adds a
\* value for each name of `reported` with add_value_by_name
ExperimentRun(p, reported, fail) ==
    LET experiment == Get(ver[p])
        numbers == {r.runnumber : r \in {q \in db.experiment_runs :
                                            q.experimentid = experiment.id}}
        last_run_number ==
            IF numbers = {} THEN 0
            ELSE CHOOSE n \in numbers : \A m \in numbers : m <= n
        run_id == LegacyNewIds(db, 1)[1]
        done(outcome) == last' = Result("run", outcome) /\ UNCHANGED db
    IN  /\ pc[p] = Idle
        /\ IsSome(ver[p])
        /\ UNCHANGED <<pc, ver, inst, now, build, env>>
        /\ IF \E name \in reported :
                 \A v \in experiment.required_variables :
                    v.template.name # name
           THEN ~fail /\ done("panic")
           ELSE IF reported
                     # {v.template.name : v \in experiment.required_variables}
           THEN ~fail /\ done("err_validation")
           ELSE IF fail THEN done("err_store")
           ELSE /\ last_run_number < MaxRows
                /\ db' = [db EXCEPT
                     !.experiment_runs = @ \cup
                         {[runnumber |-> last_run_number + 1,
                           experimentid |-> experiment.id, id |-> run_id]},
                     !.measurements = @ \cup
                         {[experimentid |-> experiment.id,
                           variableid |-> v.id, runid |-> run_id,
                           value |-> "x"] :
                             v \in experiment.required_variables}]
                /\ last' = Result("run", "ok")

\* Experiment::all_runs: None on its error, else the runs that have
\* measurements, sorted by run number
all_runs(d, experiment) ==
    LET runs == {r \in d.experiment_runs :
                    /\ r.experimentid = experiment.id
                    /\ \E m \in d.measurements : m.runid = r.id}
        rows == {m \in d.measurements : \E r \in runs : m.runid = r.id}
        numbers == {r.runnumber : r \in runs}
        nth(i) == CHOOSE n \in numbers :
                     Cardinality({m \in numbers : m < n}) = i - 1
    IN  IF \E m \in rows : \A v \in experiment.required_variables :
                                v.id # m.variableid
        THEN None
        ELSE Some([i \in 1 .. Cardinality(numbers) |->
                     LET run == CHOOSE r \in runs : r.runnumber = nth(i)
                     IN  [run_id |-> run.id, run_number |-> run.runnumber,
                          measurements |->
                              {[variableid |-> m.variableid,
                                value |-> m.value] :
                                  m \in {x \in rows : x.runid = run.id}}]])

\* A delete that leaves the runs and measurements of the experiment behind
DeleteExperimentRowOnly(p, fail) ==
    /\ pc[p] = Idle
    /\ IsSome(ver[p])
    /\ UNCHANGED <<pc, inst, now, build, env>>
    /\ ver' = [ver EXCEPT ![p] = None]
    /\ last' = Result("delete_from_database",
                        IF fail THEN "err_store" ELSE "ok")
    /\ db' = IF fail THEN db
             ELSE [db EXCEPT
                     !.experiment_variables =
                         {l \in @ : l.experiment_id # Get(ver[p]).id},
                     !.experiments = {e \in @ : e.id # Get(ver[p]).id}]

\* Experiment::delete_from_database, which consumes the experiment
DeleteFromDatabase(p, fail) ==
    LET id == Get(ver[p]).id
    IN  /\ pc[p] = Idle
        /\ IsSome(ver[p])
        /\ UNCHANGED <<pc, inst, now, build, env>>
        /\ ver' = [ver EXCEPT ![p] = None]
        /\ last' = Result("delete_from_database",
                            IF fail THEN "err_store" ELSE "ok")
        /\ db' = IF fail THEN db
                 ELSE [db EXCEPT
                         !.measurements = {m \in @ : m.experimentid # id},
                         !.experiment_runs = {r \in @ : r.experimentid # id},
                         !.experiment_variables =
                             {l \in @ : l.experiment_id # id},
                         !.experiments = {e \in @ : e.id # id}]

\* A lookup by position: the run_number-th run of the experiment
from_position_and_experiment(d, run_number, experiment) ==
    LET runs == {r \in d.experiment_runs : r.experimentid = experiment.id}
        found == {r \in runs :
                    Cardinality({q \in runs : q.runnumber < r.runnumber})
                      = run_number - 1}
    IN  IF found = {} THEN None ELSE Some(CHOOSE r \in found : TRUE)

\* RawRun::from_run_number_and_experiment: the run of the experiment with
\* the run number
from_run_number_and_experiment(d, run_number, experiment) ==
    LET found == {r \in d.experiment_runs :
                     /\ r.runnumber = run_number
                     /\ r.experimentid = experiment.id}
    IN  IF found = {} THEN None ELSE Some(CHOOSE r \in found : TRUE)

\* A delete that looks a run number up and deletes its run one by one: the
\* runs found are gone when a later number has no run
DeleteRunsOneByOne(p, run_numbers, fail) ==
    LET experiment == Get(ver[p])
        found(n) == from_run_number_and_experiment(db, n, experiment)
        matching_runs == {Get(found(n)).id :
                            n \in {k \in run_numbers : IsSome(found(k))}}
    IN  /\ pc[p] = Idle
        /\ IsSome(ver[p])
        /\ UNCHANGED <<pc, ver, inst, now, build, env>>
        /\ IF fail
           THEN /\ last' = Result("delete_runs_from_database", "err_store")
                /\ UNCHANGED db
           ELSE /\ last' = Result("delete_runs_from_database",
                                   IF \E n \in run_numbers : ~IsSome(found(n))
                                   THEN "err_fetch" ELSE "ok")
                /\ db' = [db EXCEPT
                     !.measurements = {m \in @ : m.runid \notin matching_runs},
                     !.experiment_runs = {r \in @ : r.id \notin matching_runs}]

\* Experiment::delete_runs_from_database: look every run number up, then
\* delete each run found (RawRun::delete_from_database: its measurements and
\* its row) in one transaction
DeleteRunsFromDatabase(p, run_numbers, fail) ==
    LET experiment == Get(ver[p])
        found(n) == from_run_number_and_experiment(db, n, experiment)
        matching_runs == {Get(found(n)).id : n \in run_numbers}
        done(outcome) ==
            last' = Result("delete_runs_from_database", outcome)
    IN  /\ pc[p] = Idle
        /\ IsSome(ver[p])
        /\ UNCHANGED <<pc, ver, inst, now, build, env>>
        /\ IF \E n \in run_numbers : ~IsSome(found(n))
           THEN ~fail /\ done("err_fetch") /\ UNCHANGED db
           ELSE IF fail THEN done("err_store") /\ UNCHANGED db
           ELSE /\ done("ok")
                /\ db' = [db EXCEPT
                     !.measurements = {m \in @ : m.runid \notin matching_runs},
                     !.experiment_runs = {r \in @ : r.id \notin matching_runs}]

\* Experiment::run up to its transaction, for callers that share the store:
\* the function is called, the reported values are checked, and
\* get_current_run_number_from_db reads the last run number on the connection
RunGetCurrentRunNumber(p, reported) ==
    LET experiment == Get(ver[p])
        numbers == {r.runnumber : r \in {q \in db.experiment_runs :
                                            q.experimentid = experiment.id}}
        last_run_number ==
            IF numbers = {} THEN 0
            ELSE CHOOSE n \in numbers : \A m \in numbers : m <= n
    IN  /\ pc[p] = Idle
        /\ IsSome(ver[p])
        /\ UNCHANGED <<db, ver, inst, now, build, env>>
        /\ IF \E name \in reported :
                 \A v \in experiment.required_variables :
                    v.template.name # name
           THEN last' = Result("run", "panic") /\ UNCHANGED pc
           ELSE IF reported
                     # {v.template.name : v \in experiment.required_variables}
           THEN last' = Result("run", "err_validation") /\ UNCHANGED pc
           ELSE /\ last_run_number < MaxRows
                /\ pc' = [pc EXCEPT ![p] =
                     [at |-> "insert_run", last_run_number |-> last_run_number]]
                /\ UNCHANGED last

\* Experiment::run, its transaction: insert_run with the number read before
\* plus one, and insert_measurement for each variable
RunInsertRun(p) ==
    LET experiment == Get(ver[p])
        run_id == LegacyNewIds(db, 1)[1]
    IN  /\ pc[p].at = "insert_run"
        /\ db' = [db EXCEPT
             !.experiment_runs = @ \cup
                 {[runnumber |-> pc[p].last_run_number + 1,
                   experimentid |-> experiment.id, id |-> run_id]},
             !.measurements = @ \cup
                 {[experimentid |-> experiment.id,
                   variableid |-> v.id, runid |-> run_id,
                   value |-> "x"] :
                     v \in experiment.required_variables}]
        /\ last' = Result("run", "ok")
        /\ pc' = [pc EXCEPT ![p] = Idle]
        /\ UNCHANGED <<ver, inst, now, build, env>>

\* Several processes obtain the experiment and run it, their store calls
\* interleaved
SpecLegacyRuns ==
    LegacyInit
    /\ [][\E p \in Procs :
            \/ \E cfg \in LegacyConfigs : ExperimentNew(p, cfg, FALSE)
            \/ \E reported \in SUBSET {"a", "b"} : RunGetCurrentRunNumber(p, reported)
            \/ RunInsertRun(p)]_vars

SpecLegacy ==
    LegacyInit
    /\ [][\/ \E cfg \in LegacyConfigs, fail \in BOOLEAN :
                ExperimentNew("p1", cfg, fail)
          \/ \E reported \in SUBSET {"a", "b"}, fail \in BOOLEAN :
                ExperimentRun("p1", reported, fail)
          \/ \E fail \in BOOLEAN : DeleteFromDatabase("p1", fail)
          \/ \E run_numbers \in SUBSET (1 .. MaxRows), fail \in BOOLEAN :
                DeleteRunsFromDatabase("p1", run_numbers, fail)]_vars

\* C25: frame of delete_runs.  A successful delete_runs_from_database with a
\* set of run numbers (a list or a range) deletes exactly the runs of the
\* experiment with those numbers and their measurements: every other run and
\* measurement row, the experiment, its variable links and the variables are
\* unchanged, and all_runs returns the runs it returned before without the
\* deleted ones, in order and with their run numbers.
C25_DeleteRunsFrame ==
    [][\A run_numbers \in SUBSET (1 .. MaxRows) :
         (/\ DeleteRunsFromDatabase("p1", run_numbers, FALSE)
          /\ last' = Result("delete_runs_from_database", "ok"))
         => LET experiment == Get(ver["p1"])
                deleted == {r \in db.experiment_runs :
                               /\ r.experimentid = experiment.id
                               /\ r.runnumber \in run_numbers}
                Kept(run) == run.run_number \notin run_numbers
            IN  /\ Cardinality(deleted) = Cardinality(run_numbers)
                /\ db'.experiment_runs = db.experiment_runs \ deleted
                /\ db'.measurements
                     = {m \in db.measurements :
                           \A r \in deleted : m.runid # r.id}
                /\ db'.experiments = db.experiments
                /\ db'.experiment_variables = db.experiment_variables
                /\ db'.variables = db.variables
                /\ IsSome(all_runs(db, experiment))
                /\ all_runs(db', experiment)
                     = Some(SelectSeq(Get(all_runs(db, experiment)), Kept))]_vars

\* The first of three runs was deleted: the runs 2 and 3 are left
C25_Witness ==
    /\ last = Result("delete_runs_from_database", "ok")
    /\ IsSome(ver["p1"])
    /\ IsSome(all_runs(db, Get(ver["p1"])))
    /\ Len(Get(all_runs(db, Get(ver["p1"])))) = 2
    /\ Get(all_runs(db, Get(ver["p1"])))[1].run_number = 2
    /\ Get(all_runs(db, Get(ver["p1"])))[2].run_number = 3

\* C27: Experiment::new.  With a new name the experiment is inserted and
\* returned; with a stored name whose description, researcher and variable
\* set equal the arguments, the stored experiment is returned with its id and
\* the store, holding one experiment of the name, is unchanged; with a stored
\* name and another description, researcher or variable set, an error is
\* returned and the store is unchanged.
C27_NewKnownOrError ==
    [][\A cfg \in LegacyConfigs :
         ExperimentNew("p1", cfg, FALSE)
         => LET known == get_experiment_from_db_by_name(db, cfg.name)
                stored == get_experiment_from_db_by_name(db', cfg.name)
            IN  IF ~IsSome(known)
                THEN /\ last' = Result("new", "ok")
                     /\ IsSome(stored)
                     /\ ver'["p1"] = stored
                     /\ Get(stored).description = cfg.description
                     /\ Get(stored).researcher = cfg.researcher
                     /\ {v.template : v \in Get(stored).required_variables}
                          = cfg.required_variables
                ELSE IF /\ Get(known).description = cfg.description
                        /\ Get(known).researcher = cfg.researcher
                        /\ {v.template : v \in Get(known).required_variables}
                             = cfg.required_variables
                THEN /\ last' = Result("new", "ok")
                     /\ ver'["p1"] = known
                     /\ db' = db
                     /\ Cardinality({e \in db.experiments :
                                       e.name = cfg.name}) = 1
                ELSE /\ last' = Result("new", "err_name")
                     /\ db' = db
                     /\ ver' = ver]_vars

\* C28: delete, then recreate.  After Experiment::delete_from_database has
\* succeeded, from_name(name) returns None and no measurements, experiment_runs
\* or experiment_variables row carries the id of the deleted experiment; and
\* an experiment created while its name is not stored (created again with the
\* same parameters after the delete, among others) has no runs: all_runs
\* returns the empty list.
C28_DeleteThenRecreate ==
    [][/\ (/\ DeleteFromDatabase("p1", FALSE)
           /\ last' = Result("delete_from_database", "ok"))
          => LET deleted == Get(ver["p1"])
             IN  /\ get_experiment_from_db_by_name(db', deleted.name) = None
                 /\ \A m \in db'.measurements : m.experimentid # deleted.id
                 /\ \A r \in db'.experiment_runs : r.experimentid # deleted.id
                 /\ \A l \in db'.experiment_variables :
                       l.experiment_id # deleted.id
       /\ \A cfg \in LegacyConfigs :
            (/\ ExperimentNew("p1", cfg, FALSE)
             /\ get_experiment_from_db_by_name(db, cfg.name) = None)
            => /\ last' = Result("new", "ok")
               /\ all_runs(db', Get(ver'["p1"])) = Some(<<>>)]_vars

\* The experiment was deleted: its variables are still in the catalog, and
\* no experiment, link, run or measurement is stored
C28_Witness ==
    /\ last = Result("delete_from_database", "ok")
    /\ ver["p1"] = None
    /\ db.variables # {}
    /\ db.experiments = {}
    /\ db.experiment_variables = {}
    /\ db.experiment_runs = {}
    /\ db.measurements = {}

(***************************************************************************)
(* Version resolution, deduplication, frames of the deletes, run numbers,  *)
(* and the command line.                                                   *)
(***************************************************************************)

\* C31: version resolution compares only against the most recent version by
\* creation time.  A successful get_current_version of a single process
\* returns the version fetch_latest_experiment_version_by_name answers right
\* after it; and whenever the latest stored version differs from the
\* submitted configuration a new version is stored, also when an older
\* version equals the configuration: resolving A, then B, then A again
\* stores three versions, and the third call does not return the first.
C31_LatestOnly ==
    [][(/\ last' = Result("get_current_version", "ok")
        /\ pc'["p1"] = Idle
        /\ IsSome(ver'["p1"]))
       => LET returned == Get(ver'["p1"])
              IdsOf(d) == {v.id : v \in fetch_all_experiment_versions_by_name(
                                          d, returned.name)}
              latest == fetch_latest_experiment_version_by_name(
                            db', returned.name)
          IN  /\ \A v \in latest : IsSome(v) /\ Get(v).id = returned.id
              /\ pc["p1"] # Idle
                   => /\ returned.id \notin IdsOf(db)
                      /\ IdsOf(db') = IdsOf(db) \cup {returned.id}]_vars

\* A, then B, then A again: three versions are stored, the first and the
\* third with the same arguments, and the caller holds the third
C31_Witness ==
    /\ last = Result("get_current_version", "ok")
    /\ IsSome(ver["p1"])
    /\ \E a \in db.experiment_versions, b \in db.experiment_versions :
          LET third == Get(ver["p1"])
              first == VersionFromRow(db, a)
              second == VersionFromRow(db, b)
          IN  /\ first.date < second.date
              /\ second.date < third.date
              /\ first.description = third.description
              /\ first.researchers = third.researchers
              /\ first.input_variables = third.input_variables
              /\ first.output_variables = third.output_variables
              /\ first.version = third.version
              /\ second.description # third.description

\* Twins: two callers of one build resolve the same experiment, each with
\* one of two descriptions, their store calls interleaved
SpecTwins ==
    InitSeq /\ [][\/ ResolveStep("p1", {BaseConfig, [BaseConfig EXCEPT !.description = "d2"]}, FALSE)
                  \/ ResolveStep("p2", {BaseConfig, [BaseConfig EXCEPT !.description = "d2"]}, FALSE)]_vars

\* C32: concurrent resolution creates no duplicate version.  Under any
\* interleaving of two get_current_version calls with identical arguments
\* for one name, the store never holds two versions of the name with the
\* same version tag, description, researchers and variable sets stored one
\* right after the other by date (sequential callers store a version only if
\* it differs from the latest one); and the calls for a name that was not
\* known leave exactly one experiments row and one version of the name.
C32_NoTwinVersions ==
    [][\A p \in Procs :
         (pc[p] # Idle /\ pc'[p] = Idle)
         => LET name == pc[p].cfg.name
                rows == VersionRowsByName(db', name)
                Same(r, s) ==
                    /\ r.version = s.version
                    /\ r.description = s.description
                    /\ r.researchers = s.researchers
                    /\ VersionFromRow(db', r).input_variables
                         = VersionFromRow(db', s).input_variables
                    /\ VersionFromRow(db', r).output_variables
                         = VersionFromRow(db', s).output_variables
            IN  /\ \A r \in rows, s \in rows :
                      (r.date < s.date /\ Same(r, s))
                      => \E t \in rows : /\ r.date < t.date
                                         /\ t.date < s.date
                                         /\ ~Same(r, t)
                /\ pc[p].at = "insert_new_experiment"
                     => /\ name \in db'.experiments
                        /\ Cardinality(rows)
                             = IF name \in db.experiments
                               THEN Cardinality(VersionRowsByName(db, name))
                               ELSE 1]_vars

\* Frames: one process works on two experiments, E and F, declared with the
\* same variables, makes instances with two values, records runs, and deletes
\* by name and by instance
SpecFrames ==
    InitSeq /\ [][\/ \E name \in {"E", "F"} : SyncFetch("p1", [BaseConfig EXCEPT !.name = name], FALSE)
                  \/ SyncInsertExperiment("p1", 0)
                  \/ InstanceStep("p1", {<<<<"X", String("a")>>>>, <<<<"X", String("b")>>>>}, FALSE)
                  \/ RunStep("p1", SharedReportLists, FALSE)
                  \/ \E name \in {"E", "F"} : DeleteExperimentFetch("p1", name, FALSE)
                  \/ DeleteExperimentCommit("p1", 0)
                  \/ DeleteExperimentInstance("p1", 0)]_vars

C34_EmptyAssignment ==
    [][(/\ IsSome(ver["p1"])
        /\ Get(ver["p1"]).input_variables = {}
        /\ MakeInstanceFetch("p1", <<>>, FALSE))
       => LET stored == {i.id : i \in {j \in db.experiment_instances :
                                          j.version_id = Get(ver["p1"]).id}}
          IN  /\ Cardinality(stored) <= 1
              /\ stored # {}
                   => /\ pc'["p1"] = Idle
                      /\ last' = Result("make_instance", "ok")
                      /\ IsSome(inst'["p1"])
                      /\ Get(inst'["p1"]).id \in stored]_vars

\* C35: legacy run numbering.  The run numbers of an experiment start at 1,
\* each Experiment::run that stores a run gives it the highest run number
\* stored for the experiment plus 1, and no two stored runs of one experiment
\* share a run number, whatever the interleaving of the run calls of several
\* processes.
C35_RunNumbers ==
    [][\A p \in Procs :
         RunInsertRun(p)
         => LET Numbers(d) == {r.runnumber : r \in {q \in d.experiment_runs :
                                   q.experimentid = Get(ver[p]).id}}
                added == db'.experiment_runs \ db.experiment_runs
            IN  /\ \A r \in added :
                      /\ r.runnumber - 1 \in Numbers(db) \cup {0}
                      /\ \A n \in Numbers(db) : n < r.runnumber
                /\ \A r \in db'.experiment_runs, s \in db'.experiment_runs :
                      (r.experimentid = s.experimentid /\ r.runnumber = s.runnumber)
                      => r.id = s.id]_vars

\* C36: delete_runs_from_database is all-or-nothing.  When one of the
\* requested run numbers has no run of the experiment, the call returns an
\* error and deletes no run and no measurement, the runs of the requested
\* numbers that exist included.
C36_DeleteRunsAllOrNothing ==
    [][\A run_numbers \in SUBSET (1 .. MaxRows) :
         (/\ IsSome(ver["p1"])
          /\ \E n \in run_numbers :
                \A r \in db.experiment_runs :
                   r.experimentid # Get(ver["p1"]).id \/ r.runnumber # n
          /\ DeleteRunsFromDatabase("p1", run_numbers, FALSE))
         => /\ last'.op = "delete_runs_from_database"
            /\ last'.outcome \notin {"ok", "none"}
            /\ db' = db]_vars

\* The call failed on an experiment that has the runs 1 and 2 and no run 3:
\* both runs and their measurements are stored
C36_Witness ==
    /\ last = Result("delete_runs_from_database", "err_fetch")
    /\ IsSome(ver["p1"])
    /\ {r.runnumber : r \in {q \in db.experiment_runs :
                               q.experimentid = Get(ver["p1"]).id}} = {1, 2}
    /\ \A r \in db.experiment_runs : \E m \in db.measurements : m.runid = r.id

(***************************************************************************)
(* Reading runs back: a store that holds one instance of a version with    *)
(* the output variables Y and W and up to MaxValues runs of the instance,  *)
(* each with a measurement of Y and of W.                                  *)
(***************************************************************************)
\* fetch_runs_in_date_range: the joined rows of the runs of the instance with
\* start <= date < end, in any order, parsed by parse_rows_to_runs
fetch_runs_in_date_range(d, experiment_instance, start, end) ==
    {parse_rows_to_runs(rows, experiment_instance) :
        rows \in Orders({r \in JoinedRunRows(d, experiment_instance.id) :
                           start <= r.date /\ r.date < end})}

\* The store after get_current_version, make_instance and one run for each
\* value of Y in ys, built with the statements of these calls; p1 holds the
\* version and the instance
InitFetch ==
    LET version == from_experiment(1, "E", "b1", 1, "d1", {<<"ann">>}, {VX}, {VY, VW})
        instance == ExperimentInstance(version, AsVariableValues({VX}, <<<<"X", String("a")>>>>), 2)
        run(k, y) ==
            [experiment_instance |-> instance, date |-> 1 + k, id |-> 2 + k,
             measurements |-> AsVariableValues({VY, VW},
                                  <<<<"Y", Numeric(y)>>, <<"W", Bool("true")>>>>)]
        stmts(ys) ==
            insert_new_experiment(version)
            \o insert_new_experiment_instance(instance)
            \o Flatten([k \in DOMAIN ys |-> insert_new_run(run(k, ys[k]))])
    IN  /\ \E ys \in SeqsUpTo({"1", "2"}, MaxValues) :
              /\ db = Transaction(stmts(ys), EmptyDb, 0).db
              /\ now = 1 + Len(ys)
        /\ pc = [p \in Procs |-> Idle]
        /\ ver = [p \in Procs |-> IF p = "p1" THEN Some(version) ELSE None]
        /\ inst = [p \in Procs |-> IF p = "p1" THEN Some(instance) ELSE None]
        /\ last = Result("none", "none")
        /\ build = [p \in Procs |-> "b1"]
        /\ env = [p \in Procs |-> None]

\* Database::fetch_all_runs_of_instance and Database::fetch_runs_in_date_range
\* on the instance the process holds; `last` keeps what the call returned
FetchRuns(p, date_range) ==
    LET instance == Get(inst[p])
        results == IF IsSome(date_range)
                   THEN fetch_runs_in_date_range(db, instance,
                            Get(date_range)[1], Get(date_range)[2])
                   ELSE fetch_all_runs_of_instance(db, instance)
    IN  /\ IsSome(inst[p])
        /\ \E fetched \in results :
              last' = [op |-> "fetch_runs", date_range |-> date_range,
                       outcome |-> IF IsSome(fetched) THEN "ok" ELSE "err_fetch",
                       runs |-> fetched]
        /\ UNCHANGED <<db, pc, ver, inst, now, build, env>>

SpecFetch ==
    InitFetch
    /\ [][\/ FetchRuns("p1", None)
          \/ \E start \in 1 .. MaxClock, end \in 1 .. MaxClock + 1 : FetchRuns("p1", Some(<<start, end>>))]_vars

\* C37: runs are read back whole.  Whatever the order in which the store
\* returns the joined rows, fetch_all_runs_of_instance and
\* fetch_runs_in_date_range return each stored run of the instance (within
\* the date range) exactly once, with all of its measurements in that one
\* ExperimentRun: no run is split into several entries.
C37_RunsNotSplit ==
    (last.op = "fetch_runs" /\ last.outcome = "ok")
    => LET runs == Get(last.runs)
           I == Get(inst["p1"]).id
           Within(date) ==
               IsSome(last.date_range)
               => /\ Get(last.date_range)[1] <= date
                  /\ date < Get(last.date_range)[2]
           matching == {r \in db.runs : r.ex_instance_id = I /\ Within(r.date)}
       IN  /\ Len(runs) = Cardinality(matching)
           /\ \A r \in matching :
                 \E k \in DOMAIN runs :
                    /\ runs[k].id = r.id
                    /\ runs[k].date = r.date
                    /\ Len(runs[k].measurements)
                         = Cardinality({m \in db.measurements : m.run_id = r.id})
                    /\ \A j \in DOMAIN runs : runs[j].id = r.id => j = k

(***************************************************************************)
(* The command line tool exar-cli: its Configuration (configuration.rs)    *)
(* and the configure command (commands/configure.rs).  db is the stored    *)
(* Configuration: its entries, each a name and its is_default flag.        *)
(***************************************************************************)
\* The names typed at "Enter name of new configuration"
ConfigNames == {"c1", "c2", "c3", "c4"}

\* load_config without a configuration file: initial_configuration creates
\* the first entry with is_default = true, and it is stored
InitConfig ==
    /\ db = {[name |-> "c1", is_default |-> TRUE]}
    /\ pc = [p \in Procs |-> Idle]
    /\ ver = [p \in Procs |-> None]
    /\ inst = [p \in Procs |-> None]
    /\ last = Result("none", "none")
    /\ now = 0
    /\ build = [p \in Procs |-> "b1"]
    /\ env = [p \in Procs |-> None]

\* Configuration::get_default_config: entries.iter().find(is_default) over a
\* HashMap, i.e. any of the default entries; with none, expect() panics
get_default_config(entries) == {e \in entries : e.is_default}

\* configure, "Add new configuration": the name and the answer to "set as
\* new default" are read from the terminal
add_new_config(config_name, as_new_default) ==
    /\ UNCHANGED <<pc, ver, inst, now, build, env>>
    /\ IF \E e \in db : e.name = config_name
       THEN last' = Result("add_new_config", "err_name") /\ UNCHANGED db
       ELSE IF get_default_config(db) = {}
       THEN last' = Result("add_new_config", "panic") /\ UNCHANGED db
       ELSE /\ db' = db \cup {[name |-> config_name,
                               is_default |-> as_new_default]}
            /\ last' = Result("add_new_config", "ok")

\* configure, "Delete existing configuration": the index into the sorted
\* names picks one stored name, to_delete; when more than one entry is left
\* and the deleted one was the default, a second index picks new_default
\* among the names left, and set_as_default panics if an entry is default
delete_existing_config(to_delete, new_default) ==
    LET config_to_delete == CHOOSE e \in db : e.name = to_delete
        left == db \ {config_to_delete}
    IN  /\ UNCHANGED <<pc, ver, inst, now, build, env>>
        /\ IF db = {}
           THEN /\ last' = Result("delete_existing_config", "err_options")
                /\ UNCHANGED db
           ELSE /\ \E e \in db : e.name = to_delete
                /\ IF Cardinality(left) > 1 /\ config_to_delete.is_default
                   THEN /\ \E e \in left : e.name = new_default
                        /\ IF get_default_config(left) # {}
                           THEN /\ last' = Result("delete_existing_config", "panic")
                                /\ UNCHANGED db
                           ELSE /\ db' = {[e EXCEPT !.is_default =
                                              (e.name = new_default)] : e \in left}
                                /\ last' = Result("delete_existing_config", "ok")
                   ELSE /\ db' = left
                        /\ last' = Result("delete_existing_config", "ok")

SpecConfig ==
    InitConfig
    /\ [][\/ \E config_name \in ConfigNames, as_new_default \in BOOLEAN : add_new_config(config_name, as_new_default)
          \/ \E to_delete \in ConfigNames, new_default \in ConfigNames : delete_existing_config(to_delete, new_default)]_vars

\* C38: the configuration has one default.  After any sequence of
\* add_new_config and delete_existing_config that leaves at least one entry,
\* exactly one entry of the stored Configuration has is_default = true, so
\* that apply_default_config finds a default entry and only one.
C38_OneDefault ==
    db # {} => Cardinality(get_default_config(db)) = 1

(***************************************************************************)
(* The command line of the first crate (src/src/bin/cli.rs): the run       *)
(* numbers argument of delete-runs.  A text is a sequence of characters.   *)
(***************************************************************************)
\* str::parse::<usize>: an optional "+" and then one or more decimal digits;
\* None on everything else
RECURSIVE parse_usize(_)
parse_usize(text) ==
    LET Digit(c) == CASE c = "0" -> 0 [] c = "1" -> 1 [] c = "2" -> 2
        n == Len(text)
        front == parse_usize(SubSeq(text, 1, n - 1))
    IN  IF n = 0 THEN None
        ELSE IF text[n] \notin {"0", "1", "2"} THEN None
        ELSE IF n = 1 \/ (n = 2 /\ text[1] = "+") THEN Some(Digit(text[n]))
        ELSE IF ~IsSome(front) THEN None
        ELSE Some(10 * Get(front) + Digit(text[n]))

\* str::split(separator): the pieces between the separators, empty pieces
\* included; a text without the separator is one piece
RECURSIVE split(_, _)
split(text, separator) ==
    IF \A i \in DOMAIN text : text[i] # separator THEN <<text>>
    ELSE LET k == CHOOSE i \in DOMAIN text :
                     /\ text[i] = separator
                     /\ \A j \in 1 .. (i - 1) : text[j] # separator
         IN  <<SubSeq(text, 1, k - 1)>>
             \o split(SubSeq(text, k + 1, Len(text)), separator)

\* A parser whose range leaves the end value out
parse_run_numbers_exclusive(run_numbers) ==
    LET numbers == split(run_numbers, ",")
        range == split(run_numbers, "-")
        first == parse_usize(range[1])
        last_inclusive == parse_usize(range[2])
    IN  IF Len(numbers) > 1
        THEN IF \E i \in DOMAIN numbers : ~IsSome(parse_usize(numbers[i]))
             THEN None
             ELSE Some([i \in DOMAIN numbers |-> Get(parse_usize(numbers[i]))])
        ELSE IF Len(range) > 1
        THEN IF Len(range) # 2 THEN None
             ELSE IF ~IsSome(first) \/ ~IsSome(last_inclusive) THEN None
             ELSE IF Get(last_inclusive) < Get(first) THEN None
             ELSE Some([i \in 1 .. (Get(last_inclusive) - Get(first)) |->
                          Get(first) + i - 1])
        ELSE IF ~IsSome(parse_usize(run_numbers)) THEN None
        ELSE Some(<<Get(parse_usize(run_numbers))>>)

\* parse_run_numbers_to_vec: a list when the text contains a comma, else a
\* range when it contains a dash, else a single number; None is its Err
parse_run_numbers_to_vec(run_numbers) ==
    LET numbers == split(run_numbers, ",")
        range == split(run_numbers, "-")
        first == parse_usize(range[1])
        last_inclusive == parse_usize(range[2])
    IN  IF Len(numbers) > 1
        THEN IF \E i \in DOMAIN numbers : ~IsSome(parse_usize(numbers[i]))
             THEN None
             ELSE Some([i \in DOMAIN numbers |-> Get(parse_usize(numbers[i]))])
        ELSE IF Len(range) > 1
        THEN IF Len(range) # 2 THEN None
             ELSE IF ~IsSome(first) \/ ~IsSome(last_inclusive) THEN None
             ELSE IF Get(last_inclusive) < Get(first) THEN None
             ELSE Some([i \in 1 .. (Get(last_inclusive) - Get(first) + 1) |->
                          Get(first) + i - 1])
        ELSE IF ~IsSome(parse_usize(run_numbers)) THEN None
        ELSE Some(<<Get(parse_usize(run_numbers))>>)

\* The run_numbers argument of delete-runs: any text of up to MaxChars
\* characters over digits, comma, dash and plus
InitParse ==
    /\ db = EmptyDb
    /\ pc = [p \in Procs |-> Idle]
    /\ ver = [p \in Procs |-> None]
    /\ inst = [p \in Procs |-> None]
    /\ now = 0
    /\ build = [p \in Procs |-> "b1"]
    /\ env = [p \in Procs |-> None]
    /\ last \in {[op |-> "delete-runs", run_numbers |-> text, result |-> None] :
                    text \in SeqsUpTo({"0", "1", "2", ",", "-", "+"}, MaxChars)}

\* delete_runs up to the lookup of the experiment: the argument is parsed
SpecParse ==
    InitParse
    /\ [][/\ last.op = "delete-runs"
          /\ last' = [last EXCEPT !.op = "parse_run_numbers_to_vec",
                                  !.result = parse_run_numbers_to_vec(last.run_numbers)]
          /\ UNCHANGED <<db, pc, ver, inst, now, build, env>>]_vars

\* C39: parse_run_numbers_to_vec.  A single number n yields [n]; a list of
\* numbers separated by commas yields the numbers in the given order; a
\* range "a-b" with a <= b yields a, a+1, ..., b ("1-1" yields [1]); the
\* empty text, a list with an empty element, a range with a missing bound
\* and a range with b < a are errors.
C39_ParseRunNumbers ==
    last.op = "parse_run_numbers_to_vec"
    => LET text == last.run_numbers
           items == split(text, ",")
           bounds == split(text, "-")
           Number(t) == t # <<>> /\ \A i \in DOMAIN t : t[i] \in {"0", "1", "2"}
           Value(t) == Get(parse_usize(t))
       IN  /\ Number(text) => last.result = Some(<<Value(text)>>)
           /\ (Len(items) > 1 /\ \A i \in DOMAIN items : Number(items[i]))
                => last.result = Some([i \in DOMAIN items |-> Value(items[i])])
           /\ (Len(bounds) = 2 /\ Number(bounds[1]) /\ Number(bounds[2]))
                => IF Value(bounds[1]) <= Value(bounds[2])
                   THEN /\ IsSome(last.result)
                        /\ Len(Get(last.result))
                             = Value(bounds[2]) - Value(bounds[1]) + 1
                        /\ \A i \in DOMAIN Get(last.result) :
                              Get(last.result)[i] = Value(bounds[1]) + i - 1
                   ELSE last.result = None
           /\ text = <<>> => last.result = None
           /\ (Len(items) > 1 /\ \E i \in DOMAIN items : items[i] = <<>>)
                => last.result = None
           /\ (Len(bounds) = 2 /\ (bounds[1] = <<>> \/ bounds[2] = <<>>))
                => last.result = None

\* The range "1-2" was parsed to the run numbers 1 and 2
C39_Witness ==
    /\ last.op = "parse_run_numbers_to_vec"
    /\ last.run_numbers = <<"1", "-", "2">>
    /\ last.result = Some(<<1, 2>>)

=============================================================================
